---- MODULE Spec2Model ----
(***************************************************************************)
(* html-components.js: the component loader, its nested dependency walker, *)
(* the in-flight guard (loadingComponents) and the two caches (fileCache,  *)
(* pageCache), for both revisions of the library held in the source file.  *)
(*                                                                         *)
(* Markup is a sequence of nodes.  A node is a piece of text, an element   *)
(* carrying data-component, an element carrying data-js, an inline script, *)
(* a {{key}} placeholder, or the inline error block the loader writes.     *)
(* The empty sequence is the empty string.                                 *)
(* An element of the document is named by its address: a top-level         *)
(* selector followed by the positions of the marker elements below it.     *)
(***************************************************************************)
EXTENDS Integers, Sequences, FiniteSets, TLC

\* ---------------------------------------------------------------- bounds
MaxCalls == 4
MaxBuilds == 2
MaxReloads == 2

\* ------------------------------------------------------------ the inputs
Ids == {"a", "b"}
Selectors == {"x", "y", "missing"}
Revisions == {1, 2}

TextNode == [k |-> "text", ref |-> "", msg |-> ""]
CompNode(id) == [k |-> "comp", ref |-> id, msg |-> ""]
JsNode == [k |-> "js", ref |-> "s.js", msg |-> ""]
ScriptNode == [k |-> "script", ref |-> "", msg |-> ""]
\* an inline script whose execution raises an exception
FailingScript == [k |-> "script", ref |-> "", msg |-> "throws"]
Placeholder(key) == [k |-> "ph", ref |-> key, msg |-> ""]
Value(v) == [k |-> "text", ref |-> "", msg |-> v]
\* The two characters $& in a prop value: a replacement pattern of
\* String.prototype.replace, standing for the matched text.
MatchedText == [k |-> "pat", ref |-> "$&", msg |-> ""]

\* An element with a data-click attribute naming a handler.  listeners
\* counts the click listeners added to the element, bound is the first
\* revision's dataset.bound_click mark.
EventNode(handler) ==
  [k |-> "event", ref |-> "click", msg |-> handler, listeners |-> 0, bound |-> FALSE]

\* A property map is the list of its entries, in insertion order.
NoProps == <<>>
Prop(key, value) == [key |-> key, value |-> value]

\* The bodies the transport serves: one reference graph per site.
\*   1: a nests b, b is an empty body
\*   2: a references itself, b is plain text
\*   3: a and b reference each other
\*   4: a references b twice, b carries a script-file reference
Sites ==
  { [a |-> <<TextNode, CompNode("b")>>, b |-> <<>>],
    [a |-> <<CompNode("a")>>, b |-> <<TextNode>>],
    [a |-> <<CompNode("b")>>, b |-> <<CompNode("a")>>],
    [a |-> <<CompNode("b"), CompNode("b")>>, b |-> <<TextNode, JsNode>>] }

HttpError == "HTTP 404"
TypeErrorMsg == "HTMLComponents.loadJS is not a function"
VARIABLES rev, site, loadingComponents, fileCache, pageCache, dom, scriptOwner, loads, fetchCount,
          calls, lastGet, builds, procs, reloads, ready

vars == <<rev, site, loadingComponents, fileCache, pageCache, dom, scriptOwner, loads, fetchCount,
          calls, lastGet, builds, procs, reloads, ready>>

\* ------------------------------------------------------------ the caches
NoEntries == [key \in {} |-> <<>>]
NewCache == [enabled |-> TRUE, cache |-> NoEntries]
Absent == [found |-> FALSE, content |-> <<>>]

\* Variant: set stores the entry whatever the flag says.
CacheSetIgnoringFlag(c, key, content) ==
  [c EXCEPT !.cache = [q \in (DOMAIN c.cache) \cup {key} |->
                         IF q = key THEN content ELSE c.cache[q]]]

\* Variant: set replaces the whole map by the one entry.
CacheSetDroppingOthers(c, key, content) ==
  IF c.enabled THEN [c EXCEPT !.cache = [q \in {key} |-> content]] ELSE c

CacheSet(c, key, content) ==
  IF c.enabled
  THEN [c EXCEPT !.cache = [q \in (DOMAIN c.cache) \cup {key} |->
                               IF q = key THEN content ELSE c.cache[q]]]
  ELSE c

CacheGet(c, key) ==
  IF c.enabled /\ key \in DOMAIN c.cache
  THEN [found |-> TRUE, content |-> c.cache[key]]
  ELSE Absent

CacheClear(c) == [c EXCEPT !.cache = NoEntries]
CacheEnable(c) == [c EXCEPT !.enabled = TRUE]
CacheDisable(c) == [c EXCEPT !.enabled = FALSE]

\* if (cachedContent): null and the empty string are both falsy
Truthy(r) == r.found /\ r.content # <<>>

\* --------------------------------------------------------------- the DOM
IsStrictPrefix(p, q) == Len(p) < Len(q) /\ SubSeq(q, 1, Len(p)) = p

Markers(html) == {i \in DOMAIN html : html[i].k = "comp"}

\* The phases in which a load has not settled.
ActivePhases == {"fetching", "nested", "failing"}

\* Variant: the text is added after what the element holds.
SetInnerHTMLAppending(st, el, live, html) ==
  IF ~live THEN st
  ELSE [st EXCEPT !.dom = [p \in DOMAIN st.dom \cup {Append(el, Len(st.dom[el]) + i) : i \in Markers(html)} |->
                             IF p = el THEN st.dom[el] \o html
                             ELSE IF p \in DOMAIN st.dom THEN st.dom[p] ELSE <<>>],
                  !.owner = [p \in DOMAIN st.dom \cup {Append(el, Len(st.dom[el]) + i) : i \in Markers(html)} |->
                               IF p \in DOMAIN st.owner THEN st.owner[p] ELSE 0]]

\* element.innerHTML = html: the subtree below el is replaced, the loads that
\* target an element of the old subtree keep running on a detached element.
SetInnerHTML(st, el, live, html) ==
  IF ~live THEN st
  ELSE LET keep == {p \in DOMAIN st.dom : ~IsStrictPrefix(el, p)}
           fresh == {Append(el, i) : i \in Markers(html)}
       IN [st EXCEPT
             !.dom = [p \in keep \cup fresh |->
                        IF p = el THEN html
                        ELSE IF p \in fresh THEN <<>> ELSE st.dom[p]],
             !.owner = [p \in keep \cup fresh |->
                          IF p = el \/ p \in fresh THEN 0 ELSE st.owner[p]],
             !.loads = [j \in DOMAIN st.loads |->
                          IF st.loads[j].phase \in ActivePhases
                             /\ IsStrictPrefix(el, st.loads[j].el)
                          THEN [st.loads[j] EXCEPT !.live = FALSE]
                          ELSE st.loads[j]],
             !.procs = [k \in DOMAIN st.procs |->
                          IF st.procs[k].phase \in {"delegated", "waiting", "children"}
                             /\ IsStrictPrefix(el, st.procs[k].el)
                          THEN [st.procs[k] EXCEPT !.live = FALSE]
                          ELSE st.procs[k]]]

\* The replacement text of one match: the value with each replacement
\* pattern replaced by what it stands for.
RECURSIVE Expand(_, _)
Expand(value, matched) ==
  IF value = <<>> THEN <<>>
  ELSE (IF Head(value).k = "pat" THEN <<matched>> ELSE <<Head(value)>>)
       \o Expand(Tail(value), matched)

\* processedTemplate.replace(placeholder, stringValue), the pattern being
\* global: every {{key}} of t is replaced.
RECURSIVE ReplaceAll(_, _, _)
ReplaceAll(t, key, value) ==
  IF t = <<>> THEN <<>>
  ELSE (IF Head(t).k = "ph" /\ Head(t).ref = key THEN Expand(value, Head(t)) ELSE <<Head(t)>>)
       \o ReplaceAll(Tail(t), key, value)

\* processTemplate(template, props): the entries are applied one after the
\* other, each replacing every {{key}} of the text produced so far.
RECURSIVE ProcessTemplate(_, _)

\* Variant: with no props the placeholders are removed from the text.
ProcessTemplateStripping(t, props) ==
  IF props = <<>> THEN SelectSeq(t, LAMBDA n : n.k # "ph")
  ELSE ProcessTemplate(ReplaceAll(t, Head(props).key, Head(props).value), Tail(props))

ProcessTemplate(t, props) ==
  IF props = <<>> THEN t
  ELSE ProcessTemplate(ReplaceAll(t, Head(props).key, Head(props).value), Tail(props))

\* One element seen by bindEventHandlers: the first revision adds a listener
\* unless the element carries its mark and then marks it, the second
\* revision adds a listener.
BindSingleEventHandler(r, n) ==
  IF n.k # "event" THEN n
  ELSE IF r = 2 THEN [n EXCEPT !.listeners = @ + 1]
  ELSE IF n.bound THEN n
  ELSE [n EXCEPT !.listeners = @ + 1, !.bound = TRUE]

\* bindEventHandlers(container): every element below the container that has
\* an event attribute.  The address <<>> stands for document.body.
BindEventHandlers(st, el, live) ==
  IF ~live THEN st
  ELSE [st EXCEPT !.dom = [p \in DOMAIN st.dom |->
                             IF p = el \/ IsStrictPrefix(el, p)
                             THEN [i \in DOMAIN st.dom[p] |->
                                     BindSingleEventHandler(st.rev, st.dom[p][i])]
                             ELSE st.dom[p]]]

HasScript(html) == \E n \in DOMAIN html : html[n].k = "script"

\* Load me injects html into el: scriptOwner[el] names the load whose
\* text brought the script elements now in el (0: el holds no script).
Inject(st, el, live, html, me) ==
  LET st1 == SetInnerHTML(st, el, live, html)
  IN IF live /\ HasScript(html) THEN [st1 EXCEPT !.owner[el] = me] ELSE st1

\* Variant: the exception of a failing script ends the pass over the
\* scripts, the scripts after it are not run.
RunScriptsUntilFailure(html) ==
  Cardinality({n \in DOMAIN html :
                 /\ html[n].k = "script"
                 /\ \A m \in 1..(n - 1) : html[m] # FailingScript})

\* scripts.forEach(script => { try { run } catch (e) { log } }): the number
\* of script elements of html that are run; an exception is caught inside
\* the iteration of its script.
RunScripts(html) == Cardinality({n \in DOMAIN html : html[n].k = "script"})

\* executeScripts(container): every script element of the container's
\* subtree is run.  loads[j].ran counts the passes over the scripts that
\* load j injected and loads[j].executed the scripts run in them; a detached
\* container is not tracked.
ExecuteScripts(st, el, live) ==
  IF ~live THEN st
  ELSE LET inside == {st.owner[p] : p \in {q \in DOMAIN st.owner : q = el \/ IsStrictPrefix(el, q)}}
       IN [st EXCEPT !.loads = [j \in DOMAIN st.loads |->
                                  IF j \in inside
                                  THEN [st.loads[j] EXCEPT
                                          !.ran = @ + 1,
                                          !.executed = @ + RunScripts(st.dom[st.loads[j].el])]
                                  ELSE st.loads[j]]]

\* ------------------------------------------------------------ the loader
\* One entry of the call log.  dup records whether another load of the same
\* identifier was running when this call was made, via the API function the
\* call came through.
LoadRec(st, id, el, live, parent, phase, path) ==
  [id |-> id, el |-> el, live |-> live, parent |-> parent, phase |-> phase, path |-> path,
   err |-> "", props |-> NoProps, ran |-> 0, executed |-> 0, via |-> "load",
   dup |-> \E j \in DOMAIN st.loads : st.loads[j].id = id /\ st.loads[j].phase \in ActivePhases]

\* if (loadingComponents.has(componentPath)) return Promise.resolve();
AlreadyLoading(st, id) == id \in st.lc

\* The suppressed call as a bug would have it: it releases the guard on its
\* way out, as the other exits do.
SuppressedReleasesGuard(st, id, el, live, parent) ==
  [st EXCEPT !.lc = @ \ {id},
             !.loads = Append(@, LoadRec(st, id, el, live, parent, "fulfilled", "suppressed"))]

\* return Promise.resolve(): the suppressed call settles at once
Suppressed(st, id, el, live, parent) ==
  [st EXCEPT !.loads = Append(@, LoadRec(st, id, el, live, parent, "fulfilled", "suppressed"))]

\* the error block written by the .catch handler
\* Variant: the error block names the fragment but not the error.
ErrorBlockWithoutMessage(id, m) == << [k |-> "error", ref |-> id, msg |-> ""] >>

ErrorBlock(id, m) == << [k |-> "error", ref |-> id, msg |-> m] >>

\* HTMLComponents.loadJS(jsPath): the second revision's API object defines no
\* loadJS, so the call raises a TypeError.
LoadJSThrows(st, html) == st.rev = 2 /\ \E n \in DOMAIN html : html[n].k = "js"

RECURSIVE LoadComponentIntoElement(_, _, _, _, _, _)
RECURSIVE LoadNestedFrom(_, _, _, _, _, _)
RECURSIVE LoadNestedComponents(_, _, _, _, _)

\* The synchronous part of loadComponentIntoElement(element, componentPath,
\* props).  On a cache hit the first revision substitutes the props into the
\* cached text, binds the event handlers and runs the scripts when the nested
\* loads have settled; the second revision injects the cached text as it is
\* and runs the scripts at once, binding nothing.  st.thrown is set when the call ends by an exception instead of a
\* promise.
LoadComponentIntoElement(st, el, live, id, props, parent) ==
  IF AlreadyLoading(st, id)
  THEN Suppressed(st, id, el, live, parent)
  ELSE LET me == Len(st.loads) + 1
           cached == CacheGet(st.fc, id)
           rec(phase, path) == [LoadRec(st, id, el, live, parent, phase, path) EXCEPT !.props = props]
       IN IF Truthy(cached)
          THEN LET html == IF st.rev = 1 THEN ProcessTemplate(cached.content, props)
                           ELSE cached.content
                   st1 == [st EXCEPT !.lc = @ \cup {id},
                                     !.loads = Append(@, rec("nested", "cache"))]
                   st2 == Inject(st1, el, live, html, me)
                   st2s == IF st.rev = 2 THEN ExecuteScripts(st2, el, live)
                           ELSE BindEventHandlers(st2, el, live)
                   st3 == LoadNestedComponents(st2s, el, live, html, me)
               IN IF st3.thrown
                  THEN [st3 EXCEPT !.loads[me].phase = "thrown", !.loads[me].err = TypeErrorMsg]
                  ELSE st3
          ELSE [st EXCEPT !.lc = @ \cup {id},
                          !.loads = Append(@, rec("fetching", "fetch")),
                          !.fetchCount[id] = @ + 1]

\* One loader call per data-component element from position i on, in
\* document order; an exception ends the pass.
LoadNestedFrom(st, el, live, html, parent, i) ==
  IF st.thrown \/ i > Len(html) THEN st
  ELSE IF html[i].k = "comp"
  THEN LoadNestedFrom(LoadComponentIntoElement(st, Append(el, i), live, html[i].ref, NoProps, parent),
                      el, live, html, parent, i + 1)
  ELSE LoadNestedFrom(st, el, live, html, parent, i + 1)

\* loadNestedComponents(container): the data-js elements first (second
\* revision only), then the data-component elements.
LoadNestedComponents(st, el, live, html, parent) ==
  IF LoadJSThrows(st, html)
  THEN [st EXCEPT !.thrown = TRUE]
  ELSE LoadNestedFrom(st, el, live, html, parent, 1)

\* The loader's view of the program state, and its write-back.
Here ==
  [rev |-> rev, lc |-> loadingComponents, fc |-> fileCache, dom |-> dom, owner |-> scriptOwner,
   loads |-> loads, fetchCount |-> fetchCount, procs |-> procs, thrown |-> FALSE]

Commit(st) ==
  /\ loadingComponents' = st.lc
  /\ fileCache' = st.fc
  /\ dom' = st.dom
  /\ scriptOwner' = st.owner
  /\ loads' = st.loads
  /\ fetchCount' = st.fetchCount
  /\ procs' = st.procs

\* ------------------------------------------------------------ the state
Targets == {<<"x">>, <<"y">>}

\* ready follows the DOMContentLoaded handler: waiting for the event, loading
\* the declared components, done (or ended by an exception).
BeforeReady == [phase |-> "waiting", loads |-> {}]
AfterReady == [phase |-> "done", loads |-> {}]

\* lastGet holds the answer of the latest direct get(key) on a cache object.
NoGet == [cache |-> "none", key |-> "", result |-> Absent, tick |-> FALSE]

Init ==
  /\ rev \in Revisions
  /\ site \in Sites
  /\ loadingComponents = {}
  /\ fileCache = NewCache
  /\ pageCache = NewCache
  /\ dom = [p \in Targets |-> <<>>]
  /\ scriptOwner = [p \in Targets |-> 0]
  /\ loads = <<>>
  /\ fetchCount = [id \in Ids |-> 0]
  /\ calls = 0
  /\ lastGet = NoGet
  /\ builds = <<>>
  /\ procs = <<>>
  /\ reloads = <<>>
  /\ ready = AfterReady

Settled == {"fulfilled", "rejected", "thrown"}
Children(ls, i) == {j \in DOMAIN ls : ls[j].parent = i}
TopCalls == {i \in DOMAIN loads : loads[i].parent = 0}

\* Promise.allSettled over the nested loader calls has resolved.
NestedSettled(i) ==
  loads[i].phase = "nested" /\ \A j \in Children(loads, i) : loads[j].phase \in Settled

\* The promise processComponentDefinition returned for spec k of a build.
\* A string spec and an object spec without children hand back the loader's
\* promise ("delegated"); a spec with children hands back the promise of
\* its .then ("waiting" for the load, then "children").
ProcPhase(ps, ls, k) ==
  IF ps[k].phase = "delegated"
  THEN (IF ls[ps[k].load].phase \in {"fulfilled", "rejected"} THEN ls[ps[k].load].phase
        ELSE "pending")
  ELSE ps[k].phase

ProcSettled(ps, ls, k) == ProcPhase(ps, ls, k) \in {"skipped", "fulfilled", "rejected"}
ProcsOf(ps, b, parent) == {k \in DOMAIN ps : ps[k].build = b /\ ps[k].parent = parent}

\* The load of a spec with children has settled.
LoadOfProcSettled(k) ==
  procs[k].phase = "waiting" /\ loads[procs[k].load].phase \in {"fulfilled", "rejected"}

\* Promise.allSettled over the child specs has resolved.
ChildrenSettled(k) ==
  /\ procs[k].phase = "children"
  /\ \A j \in ProcsOf(procs, procs[k].build, k) : ProcSettled(procs, loads, j)

\* Promise.allSettled over the specs of a page has resolved.
PageSettled(b) ==
  /\ builds[b].phase = "building"
  /\ \A k \in ProcsOf(procs, b, 0) : ProcSettled(procs, loads, k)

\* Promise.allSettled over the loads of a reloadAll call has resolved.
ReloadSettled(n) ==
  /\ reloads[n].phase = "running"
  /\ \A j \in reloads[n].loads : loads[j].phase \in {"fulfilled", "rejected"}

\* Promise.allSettled over the loads of the DOMContentLoaded handler has
\* resolved.
ReadySettled ==
  /\ ready.phase = "loading"
  /\ \A j \in ready.loads : loads[j].phase \in {"fulfilled", "rejected"}

\* A promise reaction is queued: the event loop runs it before it
\* delivers the next network response.
MicrotaskPending ==
  \/ \E i \in DOMAIN loads : loads[i].phase = "failing" \/ NestedSettled(i)
  \/ \E k \in DOMAIN procs : LoadOfProcSettled(k) \/ ChildrenSettled(k)
  \/ \E b \in DOMAIN builds : PageSettled(b)
  \/ \E n \in DOMAIN reloads : ReloadSettled(n)
  \/ ReadySettled

\* ---------------------------------------------------------- the actions
\* Variant: loadComponent hands the selector's result to the loader unchecked.
LoadComponentUnchecked(sel, id) ==
  /\ calls < MaxCalls
  /\ calls' = calls + 1
  /\ Commit(LoadComponentIntoElement(Here, <<sel>>, <<sel>> \in DOMAIN dom, id, NoProps, 0))
  /\ UNCHANGED <<rev, site, pageCache, lastGet, builds, reloads, ready>>

\* HTMLComponents.loadComponent(selector, componentPath, props)
LoadComponentWith(sel, id, props) ==
  /\ calls < MaxCalls
  /\ calls' = calls + 1
  /\ IF <<sel>> \in DOMAIN dom
     THEN Commit(LoadComponentIntoElement(Here, <<sel>>, TRUE, id, props, 0))
     ELSE /\ loads' = Append(loads, [LoadRec(Here, id, <<sel>>, FALSE, 0, "rejected", "notfound")
                                       EXCEPT !.err = "Element not found"])
          /\ UNCHANGED <<loadingComponents, fileCache, dom, scriptOwner, fetchCount, procs>>
  /\ UNCHANGED <<rev, site, pageCache, lastGet, builds, reloads, ready>>

\* HTMLComponents.loadComponent(selector, componentPath): props = {}
LoadComponent(sel, id) == LoadComponentWith(sel, id, NoProps)

\* The response arrives with an ok status: .then(html => ...).  The text
\* is substituted, cached and injected, and the event handlers of the
\* element are bound; the second revision runs the scripts here, before the
\* nested loads are started.
FetchOk(i) ==
  /\ loads[i].phase = "fetching"
  /\ ~MicrotaskPending
  /\ LET L == loads[i]
         html == ProcessTemplate(site[L.id], L.props)
         st1 == [Here EXCEPT !.fc = CacheSet(@, L.id, html)]
         st2 == Inject(st1, L.el, L.live, html, i)
         st2s == IF rev = 2 THEN ExecuteScripts(st2, L.el, L.live) ELSE st2
         st2b == BindEventHandlers(st2s, L.el, L.live)
         st3 == LoadNestedComponents(st2b, L.el, L.live, html, i)
     IN Commit(IF st3.thrown
               THEN [st3 EXCEPT !.loads[i].phase = "failing", !.loads[i].err = TypeErrorMsg]
               ELSE [st3 EXCEPT !.loads[i].phase = "nested"])
  /\ UNCHANGED <<rev, site, pageCache, calls, lastGet, builds, reloads, ready>>

\* The response arrives with a non-success status: throw new Error(`HTTP ...`)
FetchFail(i) ==
  /\ loads[i].phase = "fetching"
  /\ ~MicrotaskPending
  /\ loads' = [loads EXCEPT ![i].phase = "failing", ![i].err = HttpError]
  /\ UNCHANGED <<rev, site, loadingComponents, fileCache, pageCache, dom, scriptOwner, fetchCount,
                 calls, lastGet, builds, procs, reloads, ready>>

\* .catch(error => ...): release the guard, write the error block, rethrow
Catch(i) ==
  /\ loads[i].phase = "failing"
  /\ LET L == loads[i]
         st1 == [Here EXCEPT !.lc = @ \ {L.id}]
         st2 == SetInnerHTML(st1, L.el, L.live, ErrorBlock(L.id, L.err))
     IN Commit([st2 EXCEPT !.loads[i].phase = "rejected"])
  /\ UNCHANGED <<rev, site, pageCache, calls, lastGet, builds, reloads, ready>>

\* loadNestedComponents(element).then(() => ...): the first revision runs
\* the scripts here; release the guard, resolve
Finish(i) ==
  /\ NestedSettled(i)
  /\ LET st1 == IF rev = 1 THEN ExecuteScripts(Here, loads[i].el, loads[i].live) ELSE Here
     IN loads' = [st1.loads EXCEPT ![i].phase = "fulfilled"]
  /\ loadingComponents' = loadingComponents \ {loads[i].id}
  /\ UNCHANGED <<rev, site, fileCache, pageCache, dom, scriptOwner, fetchCount, calls, lastGet,
                 builds, procs, reloads, ready>>

EnableFileCache ==
  /\ calls < MaxCalls
  /\ calls' = calls + 1
  /\ fileCache' = CacheEnable(fileCache)
  /\ UNCHANGED <<rev, site, loadingComponents, pageCache, dom, scriptOwner, loads, fetchCount,
                 lastGet, builds, procs, reloads, ready>>

DisableFileCache ==
  /\ calls < MaxCalls
  /\ calls' = calls + 1
  /\ fileCache' = CacheDisable(fileCache)
  /\ UNCHANGED <<rev, site, loadingComponents, pageCache, dom, scriptOwner, loads, fetchCount,
                 lastGet, builds, procs, reloads, ready>>

ClearFileCache ==
  /\ calls < MaxCalls
  /\ calls' = calls + 1
  /\ fileCache' = CacheClear(fileCache)
  /\ UNCHANGED <<rev, site, loadingComponents, pageCache, dom, scriptOwner, loads, fetchCount,
                 lastGet, builds, procs, reloads, ready>>

\* new Error('Element not found') of replaceComponent; the first revision
\* adds the selector.
ElementNotFound(sel) ==
  IF rev = 2 THEN "Element not found"
  ELSE [x |-> "Element not found: #x", y |-> "Element not found: #y",
        missing |-> "Element not found: #missing"][sel]

\* HTMLComponents.replaceComponent(selector, newComponentPath).  The second
\* revision empties the element and goes through loadComponent; the first
\* revision hands the element to the loader as it is.  The promise handed
\* back settles as the loader's promise does.
ReplaceComponent(sel, id) ==
  /\ calls < MaxCalls
  /\ calls' = calls + 1
  /\ IF <<sel>> \notin DOMAIN dom
     THEN /\ loads' = Append(loads, [LoadRec(Here, id, <<sel>>, FALSE, 0, "rejected", "notfound")
                                       EXCEPT !.err = ElementNotFound(sel), !.via = "replace"])
          /\ UNCHANGED <<loadingComponents, fileCache, dom, scriptOwner, fetchCount, procs>>
     ELSE LET st1 == IF rev = 2 THEN SetInnerHTML(Here, <<sel>>, TRUE, <<>>) ELSE Here
              st2 == LoadComponentIntoElement(st1, <<sel>>, TRUE, id, NoProps, 0)
          IN Commit([st2 EXCEPT !.loads[Len(loads) + 1].via = "replace"])
  /\ UNCHANGED <<rev, site, pageCache, lastGet, builds, reloads, ready>>

\* document.querySelectorAll('[data-component]'): the elements with a
\* data-component attribute below p from position i on, in document order.
RECURSIVE DataComponentsFrom(_, _, _)
DataComponentsFrom(d, p, i) ==
  IF i > Len(d[p]) THEN <<>>
  ELSE (IF d[p][i].k = "comp"
        THEN <<Append(p, i)>> \o DataComponentsFrom(d, Append(p, i), 1)
        ELSE <<>>)
       \o DataComponentsFrom(d, p, i + 1)

\* The roots of the document, in document order.
Roots == <<"x", "y">>
DataComponents(d) ==
  DataComponentsFrom(d, <<Roots[1]>>, 1) \o DataComponentsFrom(d, <<Roots[2]>>, 1)

\* element.getAttribute('data-component')
ComponentPath(d, p) == d[SubSeq(p, 1, Len(p) - 1)][p[Len(p)]].ref

\* Array.from(components).map(element => loadComponentIntoElement(element,
\* componentPath)): one loader call per element from position n on.
RECURSIVE ReloadFrom(_, _, _, _)
ReloadFrom(st, d, els, n) ==
  IF st.thrown \/ n > Len(els) THEN st
  ELSE ReloadFrom(LoadComponentIntoElement(st, els[n], els[n] \in DOMAIN st.dom,
                                           ComponentPath(d, els[n]), NoProps, 0),
                  d, els, n + 1)

\* HTMLComponents.reloadAll(), up to the promise it returns.  Only the second
\* revision has it.  The log entry keeps the two saved flags, the loader calls
\* made, and whether another reloadAll was running during this one.
ReloadAll ==
  /\ rev = 2
  /\ calls < MaxCalls
  /\ Len(reloads) < MaxReloads
  /\ calls' = calls + 1
  /\ LET st0 == [Here EXCEPT !.fc = CacheDisable(@)]
         st1 == ReloadFrom(st0, dom, DataComponents(dom), 1)
         made == {j \in (Len(loads) + 1)..Len(st1.loads) : st1.loads[j].parent = 0}
         running == {m \in DOMAIN reloads : reloads[m].phase = "running"}
     IN /\ Commit(st1)
        /\ pageCache' = CacheDisable(pageCache)
        /\ reloads' = Append([m \in DOMAIN reloads |->
                                 IF m \in running THEN [reloads[m] EXCEPT !.overlapped = TRUE]
                                 ELSE reloads[m]],
                             [wasFileCacheEnabled |-> fileCache.enabled,
                              wasPageCacheEnabled |-> pageCache.enabled,
                              loads |-> made,
                              phase |-> IF st1.thrown THEN "thrown" ELSE "running",
                              overlapped |-> running # {}])
  /\ UNCHANGED <<rev, site, lastGet, builds, ready>>

\* Promise.allSettled(reloadPromises).then(results => ...): the caches that
\* were enabled at the call are enabled again.
ReloadSettle(n) ==
  /\ ReloadSettled(n)
  /\ fileCache' = IF reloads[n].wasFileCacheEnabled THEN CacheEnable(fileCache) ELSE fileCache
  /\ pageCache' = IF reloads[n].wasPageCacheEnabled THEN CacheEnable(pageCache) ELSE pageCache
  /\ reloads' = [reloads EXCEPT ![n].phase = "settled"]
  /\ UNCHANGED <<rev, site, loadingComponents, dom, scriptOwner, loads, fetchCount, calls,
                 lastGet, builds, procs, ready>>

\* The DOMContentLoaded handler, up to Promise.allSettled: one loader call
\* per data-component element of the document.
DocumentReady ==
  /\ ready.phase = "waiting"
  /\ LET st1 == ReloadFrom(Here, dom, DataComponents(dom), 1)
         made == {j \in (Len(loads) + 1)..Len(st1.loads) : st1.loads[j].parent = 0}
     IN /\ Commit(st1)
        /\ ready' = [phase |-> IF st1.thrown THEN "thrown" ELSE "loading", loads |-> made]
  /\ UNCHANGED <<rev, site, pageCache, calls, lastGet, builds, reloads>>

\* Promise.allSettled([...]).then(() => bindEventHandlers(document.body))
ReadyBind ==
  /\ ReadySettled
  /\ dom' = BindEventHandlers(Here, <<>>, TRUE).dom
  /\ ready' = [ready EXCEPT !.phase = "done"]
  /\ UNCHANGED <<rev, site, loadingComponents, fileCache, pageCache, scriptOwner, loads,
                 fetchCount, calls, lastGet, builds, procs, reloads>>

Next ==
  \/ \E sel \in Selectors, id \in Ids : LoadComponent(sel, id)
  \/ \E i \in DOMAIN loads : FetchOk(i)
  \/ \E i \in DOMAIN loads : FetchFail(i)
  \/ \E i \in DOMAIN loads : Catch(i)
  \/ \E i \in DOMAIN loads : Finish(i)
  \/ EnableFileCache
  \/ DisableFileCache
  \/ ClearFileCache

Spec == Init /\ [][Next]_vars

\* Every issued fetch settles and every queued promise reaction runs.
Fairness ==
  /\ WF_vars(\E i \in DOMAIN loads : FetchFail(i) \/ FetchOk(i))
  /\ WF_vars(\E i \in DOMAIN loads : Finish(i) \/ Catch(i))

FairSpec == Spec /\ Fairness

\* ------------------------------------------- the cache objects on their own
CacheNames == {"file", "page"}
CacheKeys == {"a", "b"}
CacheContents == {<<>>, <<TextNode>>}

TheCache(c) == IF c = "file" THEN fileCache ELSE pageCache

PutCache(c, v) ==
  IF c = "file"
  THEN fileCache' = v /\ UNCHANGED pageCache
  ELSE pageCache' = v /\ UNCHANGED fileCache

Rest ==
  <<rev, site, loadingComponents, dom, scriptOwner, loads, fetchCount, calls, builds, procs,
    reloads, ready>>

CacheOpSet(c, key, content) ==
  /\ PutCache(c, CacheSet(TheCache(c), key, content))
  /\ UNCHANGED <<Rest, lastGet>>

CacheOpGet(c, key) ==
  /\ lastGet' = [cache |-> c, key |-> key, result |-> CacheGet(TheCache(c), key),
                 tick |-> ~lastGet.tick]
  /\ UNCHANGED <<Rest, fileCache, pageCache>>

CacheOpClear(c) ==
  /\ PutCache(c, CacheClear(TheCache(c)))
  /\ UNCHANGED <<Rest, lastGet>>

CacheOpEnable(c) ==
  /\ PutCache(c, CacheEnable(TheCache(c)))
  /\ UNCHANGED <<Rest, lastGet>>

CacheOpDisable(c) ==
  /\ PutCache(c, CacheDisable(TheCache(c)))
  /\ UNCHANGED <<Rest, lastGet>>

NextCache ==
  \/ \E c \in CacheNames, key \in CacheKeys, content \in CacheContents : CacheOpSet(c, key, content)
  \/ \E c \in CacheNames, key \in CacheKeys : CacheOpGet(c, key)
  \/ \E c \in CacheNames : CacheOpClear(c)
  \/ \E c \in CacheNames : CacheOpEnable(c)
  \/ \E c \in CacheNames : CacheOpDisable(c)

SpecCache == Init /\ [][NextCache]_vars

\* ------------------------------------------ nested loads with scripts
\*   1: p carries a script and references q and r; r carries a script
\*   2: p carries a script, references q and holds a script-file reference
NestIds == {"p", "q", "r"}
NestSites ==
  { [p |-> <<ScriptNode, CompNode("q"), CompNode("r")>>,
     q |-> <<TextNode>>,
     r |-> <<ScriptNode, TextNode>>],
    [p |-> <<ScriptNode, CompNode("q"), JsNode>>,
     q |-> <<TextNode>>,
     r |-> <<TextNode>>] }

InitNest ==
  /\ rev \in Revisions
  /\ site \in NestSites
  /\ loadingComponents = {}
  /\ fileCache = NewCache
  /\ pageCache = NewCache
  /\ dom = [p \in Targets |-> <<>>]
  /\ scriptOwner = [p \in Targets |-> 0]
  /\ loads = <<>>
  /\ fetchCount = [id \in NestIds |-> 0]
  /\ calls = 0
  /\ lastGet = NoGet
  /\ builds = <<>>
  /\ procs = <<>>
  /\ reloads = <<>>
  /\ ready = AfterReady

NextNest ==
  \/ \E id \in {"p", "r"} : LoadComponent("x", id)
  \/ \E i \in DOMAIN loads : FetchOk(i)
  \/ \E i \in DOMAIN loads : FetchFail(i)
  \/ \E i \in DOMAIN loads : Catch(i)
  \/ \E i \in DOMAIN loads : Finish(i)

SpecNest == InitNest /\ [][NextNest]_vars

\* ------------------------------------------------ loads with property maps
\* The templates served for t.html, and the property maps handed to
\* loadComponent: none, plain values (in both key orders, the empty text
\* included), a value that holds another key's token, a value that holds
\* a replacement pattern.
Templates ==
  { <<Placeholder("a"), TextNode, Placeholder("b")>>,
    <<Placeholder("a"), Placeholder("c")>>,
    <<Placeholder("b"), Placeholder("a"), Placeholder("b")>>,
    <<Placeholder("a")>> }

PropMaps ==
  { NoProps,
    <<Prop("a", <<Value("1")>>)>>,
    <<Prop("a", <<>>)>>,
    <<Prop("a", <<Value("1")>>), Prop("b", <<Value("2")>>)>>,
    <<Prop("b", <<Value("2")>>), Prop("a", <<Value("1")>>)>>,
    <<Prop("a", <<Placeholder("b")>>), Prop("b", <<Value("2")>>)>>,
    <<Prop("a", <<Value("1"), MatchedText>>)>> }

MaxPropLoads == 2

InitProps ==
  /\ rev \in Revisions
  /\ site \in [{"t"} -> Templates]
  /\ loadingComponents = {}
  /\ fileCache = NewCache
  /\ pageCache = NewCache
  /\ dom = [p \in Targets |-> <<>>]
  /\ scriptOwner = [p \in Targets |-> 0]
  /\ loads = <<>>
  /\ fetchCount = [id \in {"t"} |-> 0]
  /\ calls = 0
  /\ lastGet = NoGet
  /\ builds = <<>>
  /\ procs = <<>>
  /\ reloads = <<>>
  /\ ready = AfterReady

NextProps ==
  \/ \E sel \in {"x", "y"}, props \in PropMaps :
       Len(loads) < MaxPropLoads /\ LoadComponentWith(sel, "t", props)
  \/ \E i \in DOMAIN loads : FetchOk(i)
  \/ \E i \in DOMAIN loads : FetchFail(i)
  \/ \E i \in DOMAIN loads : Catch(i)
  \/ \E i \in DOMAIN loads : Finish(i)

SpecProps == InitProps /\ [][NextProps]_vars

\* ------------------------------------------------------ the page builder
\* A text is the sequence of its characters.
Take(t, n) == SubSeq(t, 1, IF Len(t) < n THEN Len(t) ELSE n)

RECURSIVE Join(_, _)
Join(parts, sep) ==
  IF parts = <<>> THEN <<>>
  ELSE IF Len(parts) = 1 THEN Head(parts)
  ELSE Head(parts) \o sep \o Join(Tail(parts), sep)

\* The fragment identifiers of the page site and the paths they stand for.
\* "undefined" is what a spec without a name hands to the loader.
PageIds == {"header", "home", "about", "card", "undefined"}
PathOf ==
  [header |-> <<"c", "o", "m", "p", "o", "n", "e", "n", "t", "s", "/", "h", "e", "a", "d", "e", "r", ".", "h", "t", "m", "l">>,
   home |-> <<"c", "o", "m", "p", "o", "n", "e", "n", "t", "s", "/", "h", "o", "m", "e", ".", "h", "t", "m", "l">>,
   about |-> <<"c", "o", "m", "p", "o", "n", "e", "n", "t", "s", "/", "a", "b", "o", "u", "t", ".", "h", "t", "m", "l">>,
   card |-> <<"c", "o", "m", "p", "o", "n", "e", "n", "t", "s", "/", "c", "a", "r", "d", ".", "h", "t", "m", "l">>,
   undefined |-> <<"u", "n", "d", "e", "f", "i", "n", "e", "d">>]

PageSite ==
  [header |-> <<Value("header")>>,
   home |-> <<Value("home"), ScriptNode>>,
   about |-> <<Value("about")>>,
   card |-> <<Placeholder("title"), TextNode>>,
   undefined |-> <<Value("fallback")>>]

PageSelectors == {"app", "missing"}
SelectorText == [app |-> <<"#", "a", "p", "p">>, missing |-> <<"#", "m", "i", "s", "s", "i", "n", "g">>, side |-> <<"#", "s", "i", "d", "e">>]

\* A component spec.  A string spec is a path; an object spec has a name
\* ("" when absent), a layout class ("" when absent), a selector ("" when
\* absent), a condition (none, a value or function giving true or false, or
\* a function that throws), props and children.  An entry of props is a
\* plain value, a function returning the value, or a function that throws.
StringSpec(name) ==
  [str |-> TRUE, name |-> name, layout |-> "", selector |-> "", cond |-> "none",
   props |-> <<>>, children |-> <<>>]
ObjectSpec(name, layout, selector, cond, props, children) ==
  [str |-> FALSE, name |-> name, layout |-> layout, selector |-> selector, cond |-> cond,
   props |-> props, children |-> children]
PropDef(key, how, value) == [key |-> key, how |-> how, value |-> value]

\* A page definition: the legacy array of specs, or an object with
\* components, a title ("" when absent), a cacheKey ("" when absent) and a
\* cache setting ("unset" when absent).
ArrayDef(components) ==
  [array |-> TRUE, components |-> components, title |-> "", cacheKey |-> "", cache |-> "unset"]
ObjectDef(title, cacheKey, components) ==
  [array |-> FALSE, components |-> components, title |-> title, cacheKey |-> cacheKey,
   cache |-> "unset"]
\* { cache: false, cacheKey, components }
UncachedDef(cacheKey, components) ==
  [ObjectDef("", cacheKey, components) EXCEPT !.cache = "false"]

\* The pages that are built:
\*   1, 2: two route pages sharing their first component
\*   3: a titled page, one card with a computed prop in a layout section
\*   4: a page whose only spec has a false condition
\*   5: the same fragment in two layout sections
\*   6: a layout-only section with one child
\*   7: a spec whose condition throws, followed by a sibling
\*   8: a titled page without cacheKey
\*   9: a spec with a prop function that throws, followed by a sibling
\*  10: page 3 with cache: false, under page 3's cacheKey
\*  11: an object spec whose selector matches nothing, and a string spec
PageDefs ==
  << ArrayDef(<<StringSpec("header"), StringSpec("home")>>),
     ArrayDef(<<StringSpec("header"), StringSpec("about")>>),
     ObjectDef("T", "K3", <<ObjectSpec("card", "main", "", "none",
                                       <<PropDef("title", "fn", <<Value("hello")>>)>>, <<>>)>>),
     ObjectDef("", "K4", <<ObjectSpec("header", "top", "", "false",
                                      <<PropDef("title", "fn", <<Value("hello")>>)>>,
                                      <<StringSpec("home")>>)>>),
     ObjectDef("", "K5", <<ObjectSpec("about", "left", "", "true", <<>>, <<>>),
                           ObjectSpec("about", "right", "", "none", <<>>, <<>>)>>),
     ObjectDef("", "K6", <<ObjectSpec("", "hdr", "", "none", <<>>, <<StringSpec("header")>>)>>),
     ObjectDef("", "K7", <<ObjectSpec("header", "", "side", "throws", <<>>, <<>>),
                           StringSpec("home")>>),
     ObjectDef("T", "", <<StringSpec("header")>>),
     ObjectDef("", "K9", <<ObjectSpec("card", "", "side", "none",
                                      <<PropDef("title", "throws", <<>>)>>, <<>>),
                           StringSpec("about")>>),
     UncachedDef("K3", <<ObjectSpec("card", "main", "", "none",
                                    <<PropDef("title", "fn", <<Value("hello")>>)>>, <<>>)>>),
     ObjectDef("", "K11", <<ObjectSpec("header", "", "missing", "none", <<>>, <<>>),
                            StringSpec("home")>>) >>

\* JSON.stringify of a spec list.  A string spec is its quoted path.  Of an
\* object spec only the leading name property is written out: every page
\* above that holds an object spec carries a cacheKey, so that no key is
\* derived from such a text.
JsonOfSpec(spec) ==
  IF spec.str THEN <<"\"">> \o PathOf[spec.name] \o <<"\"">>
  ELSE <<"{", "\"", "n", "a", "m", "e", "\"", ":", "\"">> \o (IF spec.name = "" THEN <<>> ELSE PathOf[spec.name]) \o <<"\"", "}">>

JsonOfList(specs) ==
  <<"[">> \o Join([n \in DOMAIN specs |-> JsonOfSpec(specs[n])], <<",">>) \o <<"]">>

\* The digits of a component count.
CountText(n) == << <<"0">>, <<"1">>, <<"2">>, <<"3">> >>[n + 1]

NoKey == [kind |-> "none", text |-> <<>>, target |-> ""]
ExplicitKey(name) == [kind |-> "explicit", text |-> <<name>>, target |-> ""]

\* generateCacheKey(pageDefinition, targetElement), second revision.
\* btoa(text).slice(0, 16) encodes exactly the first 12 characters of text.
GenerateCacheKey(def, sel) ==
  IF def.array
  THEN [kind |-> "array", text |-> Take(JsonOfList(def.components), 12), target |-> sel]
  ELSE LET keyParts == (IF def.title # "" THEN << <<def.title>> >> ELSE <<>>)
                       \o << CountText(Len(def.components)), SelectorText[sel] >>
       IN [kind |-> "object", text |-> Take(Join(keyParts, <<"|">>), 12), target |-> ""]

\* pageDef.cacheKey || JSON.stringify(components).substring(0, 50), first revision.
FirstRevisionKey(def) ==
  IF def.cacheKey # "" THEN ExplicitKey(def.cacheKey)
  ELSE [kind |-> "json", text |-> Take(JsonOfList(def.components), 50), target |-> ""]

\* The cacheOptions parameter of the second revision's function: a key
\* ("" when absent) and an enabled setting ("unset" when absent).
NoOptions == [key |-> "", enabled |-> "unset"]
KeyOption(name) == [key |-> name, enabled |-> "unset"]
DisabledOption == [key |-> "", enabled |-> "false"]

\* useCache of the second revision: pageCache.enabled, overridden by
\* cacheOptions.enabled, overridden by pageDefinition.cache.
UseCache(def, cacheOptions) ==
  IF ~def.array /\ def.cache # "unset" THEN def.cache = "true"
  ELSE IF cacheOptions.enabled # "unset" THEN cacheOptions.enabled = "true"
  ELSE pageCache.enabled

\* The key the second revision settles on: pageDefinition.cacheKey, else
\* cacheOptions.key, else a generated key when caching is in use.
SecondRevisionKey(def, sel, useCache, cacheOptions) ==
  IF ~def.array /\ def.cacheKey # "" THEN ExplicitKey(def.cacheKey)
  ELSE IF cacheOptions.key # "" THEN ExplicitKey(cacheOptions.key)
  ELSE IF useCache THEN GenerateCacheKey(def, sel)
  ELSE NoKey

\* An element created for a layout section.
LayoutNode(class) == [k |-> "layout", ref |-> class, msg |-> ""]

\* The address the element created by a layout section gets once appended.
LayoutElement(st, target, live) ==
  IF live THEN Append(target, Len(st.dom[target]) + 1) ELSE Append(target, 0)

\* target.appendChild(element), element being new and empty.
AppendChild(st, target, live, node) ==
  IF ~live THEN st
  ELSE LET element == LayoutElement(st, target, live)
       IN [st EXCEPT
             !.dom = [p \in (DOMAIN st.dom) \cup {element} |->
                        IF p = target THEN Append(st.dom[target], node)
                        ELSE IF p = element THEN <<>> ELSE st.dom[p]],
             !.owner = [p \in (DOMAIN st.owner) \cup {element} |->
                          IF p = element THEN 0 ELSE st.owner[p]]]

\* target.innerHTML read: the markup of the element and of the elements
\* below it, each named by its address relative to the target.
Markup(d, target) ==
  [r \in {SubSeq(p, Len(target) + 1, Len(p)) :
            p \in {q \in DOMAIN d : q = target \/ IsStrictPrefix(target, q)}} |->
     d[target \o r]]

\* target.innerHTML = cachedContent: the subtree is rebuilt from the text;
\* elements parsed from text are new, and their scripts have not run.
SetMarkup(st, el, content) ==
  LET keep == {p \in DOMAIN st.dom : ~IsStrictPrefix(el, p) /\ p # el}
      fresh == {el \o r : r \in DOMAIN content}
      rel(p) == SubSeq(p, Len(el) + 1, Len(p))
  IN [st EXCEPT
        !.dom = [p \in keep \cup fresh |-> IF p \in fresh THEN content[rel(p)] ELSE st.dom[p]],
        !.owner = [p \in keep \cup fresh |-> IF p \in fresh THEN 0 ELSE st.owner[p]],
        !.loads = [j \in DOMAIN st.loads |->
                     IF st.loads[j].phase \in ActivePhases /\ IsStrictPrefix(el, st.loads[j].el)
                     THEN [st.loads[j] EXCEPT !.live = FALSE]
                     ELSE st.loads[j]],
        !.procs = [k \in DOMAIN st.procs |->
                     IF st.procs[k].phase \in {"delegated", "waiting", "children"}
                        /\ IsStrictPrefix(el, st.procs[k].el)
                     THEN [st.procs[k] EXCEPT !.live = FALSE]
                     ELSE st.procs[k]]]

\* Variant: a cached page that shows an error block is built again.
PageTruthyWithoutErrors(r) ==
  /\ r.found /\ r.content[<<>>] # <<>>
  /\ \A q \in DOMAIN r.content : \A n \in DOMAIN r.content[q] : r.content[q][n].k # "error"

\* if (cachedContent), the cached text being a page's markup
PageTruthy(r) == r.found /\ r.content[<<>>] # <<>>

\* One entry of the log of processed specs.
ProcRec(b, parent, spec, el, live, phase, load) ==
  [build |-> b, parent |-> parent, spec |-> spec, el |-> el, live |-> live, phase |-> phase,
   load |-> load, condEvals |-> 0, propEvals |-> 0, layouts |-> 0, passed |-> NoProps]

\* The identifier the loader receives for a spec's name.
NameOf(spec) == IF spec.name = "" THEN "undefined" ELSE spec.name

\* The number of function-valued props called before the first one that
\* throws, that one included.
RECURSIVE PropCalls(_)
PropCalls(props) ==
  IF props = <<>> THEN 0
  ELSE IF Head(props).how = "throws" THEN 1
  ELSE (IF Head(props).how = "fn" THEN 1 ELSE 0) + PropCalls(Tail(props))

PropThrows(props) == \E n \in DOMAIN props : props[n].how = "throws"
ProcessedProps(props) == [n \in DOMAIN props |-> Prop(props[n].key, props[n].value)]

\* Variant: the condition is not consulted.
ConditionIgnored(spec) == FALSE

\* if (!conditionResult) return Promise.resolve();
ConditionFails(spec) == spec.cond = "false"

\* processComponentDefinition(component, target), up to the promise it
\* returns.  st.thrown is set when it ends by an exception.
ProcessComponentDefinition(st, b, parent, spec, target, live) ==
  LET load == Len(st.loads) + 1
      rec(el, elive, phase, ld) == ProcRec(b, parent, spec, el, elive, phase, ld)
  IN IF spec.str
     THEN LET st1 == LoadComponentIntoElement(st, target, live, spec.name, NoProps, 0)
          IN [st1 EXCEPT !.procs = Append(@, rec(target, live,
                                                 IF st1.thrown THEN "thrown" ELSE "delegated", load))]
     ELSE IF spec.cond = "throws"
     THEN [st EXCEPT !.thrown = TRUE,
                     !.procs = Append(@, [rec(target, live, "thrown", 0) EXCEPT !.condEvals = 1])]
     ELSE IF ConditionFails(spec)
     THEN [st EXCEPT !.procs = Append(@, [rec(target, live, "skipped", 0) EXCEPT !.condEvals = 1])]
     ELSE LET evals == IF spec.cond = "none" THEN 0 ELSE 1
              found == <<spec.selector>> \in DOMAIN st.dom
              element == IF spec.layout # "" THEN LayoutElement(st, target, live)
                         ELSE IF spec.selector # "" /\ found THEN <<spec.selector>>
                         ELSE target
              elive == IF spec.layout = "" /\ spec.selector # "" /\ found THEN TRUE ELSE live
              st1 == IF spec.layout # "" THEN AppendChild(st, target, live, LayoutNode(spec.layout))
                     ELSE st
              made == IF spec.layout # "" THEN 1 ELSE 0
          IN IF PropThrows(spec.props)
             THEN [st1 EXCEPT !.thrown = TRUE,
                              !.procs = Append(@, [rec(element, elive, "thrown", 0)
                                                     EXCEPT !.condEvals = evals,
                                                            !.propEvals = PropCalls(spec.props),
                                                            !.layouts = made])]
             ELSE LET passed == IF st.rev = 1 THEN ProcessedProps(spec.props) ELSE NoProps
                      st2 == LoadComponentIntoElement(st1, element, elive, NameOf(spec), passed, 0)
                      phase == IF st2.thrown THEN "thrown"
                               ELSE IF spec.children # <<>> THEN "waiting"
                               ELSE "delegated"
                  IN [st2 EXCEPT !.procs = Append(@, [rec(element, elive, phase, load)
                                                        EXCEPT !.condEvals = evals,
                                                               !.propEvals = PropCalls(spec.props),
                                                               !.layouts = made,
                                                               !.passed = passed])]

\* componentList.map(component => processComponentDefinition(component, target)):
\* the specs in order; an exception ends the pass.
RECURSIVE ProcessList(_, _, _, _, _, _, _)
ProcessList(st, b, parent, specs, target, live, n) ==
  IF st.thrown \/ n > Len(specs) THEN st
  ELSE ProcessList(ProcessComponentDefinition(st, b, parent, specs[n], target, live),
                   b, parent, specs, target, live, n + 1)

\* One entry of the log of buildPage calls.
NoMarkup == [r \in {<<>>} |-> <<>>]
BuildRec(d, sel, clear) ==
  [def |-> d, target |-> sel, clear |-> clear, phase |-> "building", key |-> NoKey,
   useCache |-> FALSE, read |-> FALSE, meta |-> FALSE, markup |-> NoMarkup,
   options |-> NoOptions]

\* Variant: the build goes on without a target check.
BuildPageUnchecked(d, sel, clear) ==
  /\ Len(builds) < MaxBuilds
  /\ LET def == PageDefs[d]
         target == <<sel>>
         b == Len(builds) + 1
         st2 == ProcessList(Here, b, 0, def.components, target, target \in DOMAIN dom, 1)
     IN /\ Commit(st2)
        /\ builds' = Append(builds, [BuildRec(d, sel, clear) EXCEPT
                                       !.phase = IF st2.thrown THEN "thrown" ELSE "building",
                                       !.meta = def.title # ""])
  /\ UNCHANGED <<rev, site, pageCache, calls, lastGet, reloads, ready>>

\* buildPageFromComponents(pageDefinition, targetElement, clearTarget,
\* cacheOptions), up to the promise it returns.  The first revision's function
\* has three parameters and no cache settings.  `given` is the fourth argument
\* of the caller, kept in the log of calls.
BuildPageFromComponents(d, sel, clear, cacheOptions, given) ==
  /\ Len(builds) < MaxBuilds
  /\ LET def == PageDefs[d]
         target == <<sel>>
         b == Len(builds) + 1
         useCache == IF rev = 1 THEN TRUE ELSE UseCache(def, cacheOptions)
         key == IF rev = 1 THEN FirstRevisionKey(def)
                ELSE SecondRevisionKey(def, sel, useCache, cacheOptions)
         reads == useCache /\ key # NoKey
         cached == IF reads THEN CacheGet(pageCache, key) ELSE Absent
         rec == [BuildRec(d, sel, clear) EXCEPT !.key = key, !.useCache = useCache,
                                                !.read = reads, !.options = given]
     IN IF target \notin DOMAIN dom
        THEN /\ builds' = Append(builds, [BuildRec(d, sel, clear) EXCEPT !.phase = "rejected",
                                                                          !.options = given])
             /\ UNCHANGED <<loadingComponents, fileCache, dom, scriptOwner, loads, fetchCount, procs>>
        ELSE IF PageTruthy(cached)
        THEN /\ Commit(SetMarkup(Here, target, cached.content))
             /\ builds' = Append(builds, [rec EXCEPT !.phase = "cached"])
        ELSE LET st1 == IF clear \/ dom[target] = <<>>
                        THEN SetInnerHTML(Here, target, TRUE, <<>>)
                        ELSE Here
                 st2 == ProcessList(st1, b, 0, def.components, target, TRUE, 1)
             IN /\ Commit(st2)
                /\ builds' = Append(builds, [rec EXCEPT
                                               !.phase = IF st2.thrown THEN "thrown" ELSE "building",
                                               !.meta = def.title # ""])
  /\ UNCHANGED <<rev, site, pageCache, calls, lastGet, reloads, ready>>

\* HTMLComponents.buildPage(componentList, targetElement, clearTarget)
BuildPage(d, sel, clear) == BuildPageFromComponents(d, sel, clear, NoOptions, NoOptions)

\* HTMLComponents.buildPage(componentList, targetElement, clearTarget,
\* cacheOptions): the public function has three parameters, a fourth
\* argument goes nowhere.
BuildPageWithOptions(d, sel, clear, cacheOptions) ==
  BuildPageFromComponents(d, sel, clear, NoOptions, cacheOptions)

\* HTMLComponents.enablePageCache(), disablePageCache(), clearPageCache()
EnablePageCache ==
  /\ calls < MaxCalls
  /\ pageCache' = CacheEnable(pageCache)
  /\ calls' = calls + 1
  /\ UNCHANGED <<rev, site, loadingComponents, fileCache, dom, scriptOwner, loads, fetchCount,
                 lastGet, builds, procs, reloads, ready>>

DisablePageCache ==
  /\ calls < MaxCalls
  /\ pageCache' = CacheDisable(pageCache)
  /\ calls' = calls + 1
  /\ UNCHANGED <<rev, site, loadingComponents, fileCache, dom, scriptOwner, loads, fetchCount,
                 lastGet, builds, procs, reloads, ready>>

ClearPageCache ==
  /\ calls < MaxCalls
  /\ pageCache' = CacheClear(pageCache)
  /\ calls' = calls + 1
  /\ UNCHANGED <<rev, site, loadingComponents, fileCache, dom, scriptOwner, loads, fetchCount,
                 lastGet, builds, procs, reloads, ready>>

\* componentPromise.then(() => ...): the load of a spec with children has
\* settled.  A rejection passes through; after a fulfilment the children are
\* processed into the spec's element.
ProcContinue(k) ==
  /\ LoadOfProcSettled(k)
  /\ LET P == procs[k]
     IN IF loads[P.load].phase = "rejected"
        THEN /\ procs' = [procs EXCEPT ![k].phase = "rejected"]
             /\ UNCHANGED <<loadingComponents, fileCache, dom, scriptOwner, loads, fetchCount>>
        ELSE LET st1 == ProcessList(Here, P.build, k, P.spec.children, P.el, P.live, 1)
             IN Commit([st1 EXCEPT !.procs[k].phase = IF st1.thrown THEN "rejected" ELSE "children"])
  /\ UNCHANGED <<rev, site, pageCache, calls, lastGet, builds, reloads, ready>>

\* Promise.allSettled(childPromises).then(results => results)
ProcChildrenDone(k) ==
  /\ ChildrenSettled(k)
  /\ procs' = [procs EXCEPT ![k].phase = "fulfilled"]
  /\ UNCHANGED <<rev, site, loadingComponents, fileCache, pageCache, dom, scriptOwner, loads,
                 fetchCount, calls, lastGet, builds, reloads, ready>>

\* Promise.allSettled(loadPromises).then(results => ...): the markup of the
\* target is cached under the key and the results are handed back.
BuildFinish(b) ==
  /\ PageSettled(b)
  /\ LET B == builds[b]
         html == Markup(dom, <<B.target>>)
     IN /\ pageCache' = IF B.useCache /\ B.key # NoKey
                        THEN CacheSet(pageCache, B.key, html)
                        ELSE pageCache
        /\ builds' = [builds EXCEPT ![b].phase = "fulfilled", ![b].markup = html]
  /\ UNCHANGED <<rev, site, loadingComponents, fileCache, dom, scriptOwner, loads, fetchCount,
                 calls, lastGet, procs, reloads, ready>>

PageTargets == {<<"app">>, <<"side">>}

InitPage ==
  /\ rev \in Revisions
  /\ site = PageSite
  /\ loadingComponents = {}
  /\ fileCache = NewCache
  /\ pageCache = NewCache
  /\ dom = [p \in PageTargets |-> <<>>]
  /\ scriptOwner = [p \in PageTargets |-> 0]
  /\ loads = <<>>
  /\ fetchCount = [id \in PageIds |-> 0]
  /\ calls = 0
  /\ lastGet = NoGet
  /\ builds = <<>>
  /\ procs = <<>>
  /\ reloads = <<>>
  /\ ready = AfterReady

NextPage ==
  \/ \E d \in DOMAIN PageDefs, sel \in PageSelectors, clear \in BOOLEAN : BuildPage(d, sel, clear)
  \/ \E k \in DOMAIN procs : ProcContinue(k)
  \/ \E k \in DOMAIN procs : ProcChildrenDone(k)
  \/ \E b \in DOMAIN builds : BuildFinish(b)
  \/ \E i \in DOMAIN loads : FetchOk(i)
  \/ \E i \in DOMAIN loads : FetchFail(i)
  \/ \E i \in DOMAIN loads : Catch(i)
  \/ \E i \in DOMAIN loads : Finish(i)

SpecPage == InitPage /\ [][NextPage]_vars

\* Pages built with cache settings, between calls that switch and clear the
\* page cache: pages 1, 3 and 6, page 3 with cache: false, and builds that
\* pass cache options.
CachePages == {1, 3, 6, 10}
PageOptions == {DisabledOption, KeyOption("K")}
MaxPageCacheCalls == 2

NextPageCache ==
  \/ \E d \in CachePages, clear \in BOOLEAN : BuildPage(d, "app", clear)
  \/ \E d \in CachePages \ {10}, o \in PageOptions : BuildPageWithOptions(d, "app", TRUE, o)
  \/ calls < MaxPageCacheCalls /\ EnablePageCache
  \/ calls < MaxPageCacheCalls /\ DisablePageCache
  \/ calls < MaxPageCacheCalls /\ ClearPageCache
  \/ \E k \in DOMAIN procs : ProcContinue(k)
  \/ \E k \in DOMAIN procs : ProcChildrenDone(k)
  \/ \E b \in DOMAIN builds : BuildFinish(b)
  \/ \E i \in DOMAIN loads : FetchOk(i)
  \/ \E i \in DOMAIN loads : FetchFail(i)
  \/ \E i \in DOMAIN loads : Catch(i)
  \/ \E i \in DOMAIN loads : Finish(i)

SpecPageCache == InitPage /\ [][NextPageCache]_vars

\* A document with a section of two declared components and a slot whose
\* component is replaced; the fragments are told apart by their text, and in
\* the second site a declares b inside itself.
ReloadSites ==
  { [a |-> <<Value("A")>>, b |-> <<Value("B")>>],
    [a |-> <<Value("A"), CompNode("b")>>, b |-> <<Value("B")>>] }
ReloadDocument ==
  [p \in {<<"x">>, <<"x", 1>>, <<"x", 2>>, <<"y">>} |->
     IF p = <<"x">> THEN <<CompNode("a"), CompNode("b")>> ELSE <<>>]
MaxReloadCalls == 3

InitReload ==
  /\ rev \in Revisions
  /\ site \in ReloadSites
  /\ loadingComponents = {}
  /\ fileCache = NewCache
  /\ pageCache = NewCache
  /\ dom = ReloadDocument
  /\ scriptOwner = [p \in DOMAIN ReloadDocument |-> 0]
  /\ loads = <<>>
  /\ fetchCount = [id \in Ids |-> 0]
  /\ calls = 0
  /\ lastGet = NoGet
  /\ builds = <<>>
  /\ procs = <<>>
  /\ reloads = <<>>
  /\ ready = AfterReady

\* The caches are switched before the first reloadAll, not during one.
NextReload ==
  \/ calls < MaxReloadCalls /\ ReloadAll
  \/ \E sel \in {"y", "missing"}, id \in Ids : calls < MaxReloadCalls /\ ReplaceComponent(sel, id)
  \/ \E id \in Ids : calls < MaxReloadCalls /\ LoadComponent("y", id)
  \/ calls < MaxReloadCalls /\ reloads = <<>> /\ DisableFileCache
  \/ calls < MaxReloadCalls /\ reloads = <<>> /\ DisablePageCache
  \/ \E n \in DOMAIN reloads : ReloadSettle(n)
  \/ \E i \in DOMAIN loads : FetchOk(i)
  \/ \E i \in DOMAIN loads : FetchFail(i)
  \/ \E i \in DOMAIN loads : Catch(i)
  \/ \E i \in DOMAIN loads : Finish(i)

SpecReload == InitReload /\ [][NextReload]_vars

\* A page with a button of its own and one declared component; fragment a
\* holds a button, fragment b a text and a declaration of a.
EventSites == { [a |-> <<EventNode("greet")>>, b |-> <<Value("B"), CompNode("a")>>] }
EventDocument ==
  [p \in {<<"x">>, <<"x", 2>>, <<"y">>} |->
     IF p = <<"x">> THEN <<EventNode("menu"), CompNode("a")>> ELSE <<>>]
MaxEventCalls == 3

InitEvents ==
  /\ rev \in Revisions
  /\ site \in EventSites
  /\ loadingComponents = {}
  /\ fileCache = NewCache
  /\ pageCache = NewCache
  /\ dom = EventDocument
  /\ scriptOwner = [p \in DOMAIN EventDocument |-> 0]
  /\ loads = <<>>
  /\ fetchCount = [id \in Ids |-> 0]
  /\ calls = 0
  /\ lastGet = NoGet
  /\ builds = <<>>
  /\ procs = <<>>
  /\ reloads = <<>>
  /\ ready = BeforeReady

NextEvents ==
  \/ DocumentReady
  \/ ReadyBind
  \/ \E id \in Ids : calls < MaxEventCalls /\ LoadComponent("y", id)
  \/ \E id \in Ids : calls < MaxEventCalls /\ ReplaceComponent("y", id)
  \/ calls < MaxEventCalls /\ ReloadAll
  \/ \E n \in DOMAIN reloads : ReloadSettle(n)
  \/ \E i \in DOMAIN loads : FetchOk(i)
  \/ \E i \in DOMAIN loads : FetchFail(i)
  \/ \E i \in DOMAIN loads : Catch(i)
  \/ \E i \in DOMAIN loads : Finish(i)

SpecEvents == InitEvents /\ [][NextEvents]_vars

\* ------------------------------------------- two references to one fragment
\* p declares q twice and r once and ends in a script; r holds a script
\* that fails and one that does not; the fragments are told apart by their
\* text.  p is loaded into x, q on its own into y.
TwinSites ==
  { [p |-> <<CompNode("q"), CompNode("q"), CompNode("r"), ScriptNode>>,
     q |-> <<Value("Q")>>,
     r |-> <<FailingScript, ScriptNode, Value("R")>>] }

InitTwins ==
  /\ rev \in Revisions
  /\ site \in TwinSites
  /\ loadingComponents = {}
  /\ fileCache = NewCache
  /\ pageCache = NewCache
  /\ dom = [p \in Targets |-> <<>>]
  /\ scriptOwner = [p \in Targets |-> 0]
  /\ loads = <<>>
  /\ fetchCount = [id \in NestIds |-> 0]
  /\ calls = 0
  /\ lastGet = NoGet
  /\ builds = <<>>
  /\ procs = <<>>
  /\ reloads = <<>>
  /\ ready = AfterReady

NextTwins ==
  \/ LoadComponent("x", "p")
  \/ LoadComponent("y", "q")
  \/ \E i \in DOMAIN loads : FetchOk(i)
  \/ \E i \in DOMAIN loads : FetchFail(i)
  \/ \E i \in DOMAIN loads : Catch(i)
  \/ \E i \in DOMAIN loads : Finish(i)

SpecTwins == InitTwins /\ [][NextTwins]_vars

\* ------------------------------------------------------------ the claims
Active(i) == loads[i].phase \in ActivePhases
ActiveLoadsOf(id) == {i \in DOMAIN loads : loads[i].id = id /\ Active(i)}
Quiescent == \A i \in DOMAIN loads : ~Active(i)

\* The step appends a top-level call to the log.
NewTopCall == Len(loads') > Len(loads) /\ loads'[Len(loads) + 1].parent = 0
NewCall == loads'[Len(loads) + 1]

\* C1: an identifier is in loadingComponents if and only if exactly one
\* non-suppressed load of it has started and has not settled.
C1_InFlightIffOneActiveLoad ==
  \A id \in Ids : (id \in loadingComponents) <=> (Cardinality(ActiveLoadsOf(id)) = 1)

C3_BothTargetsFilled ==
  \A i, j \in TopCalls :
    (/\ i < j /\ loads[i].id = loads[j].id /\ loads[i].el # loads[j].el
     /\ loads[i].el \in Targets /\ loads[j].el \in Targets
     /\ loads[j].dup
     /\ loads[i].phase = "fulfilled" /\ loads[j].phase = "fulfilled" /\ Quiescent)
    => /\ dom[loads[i].el] = site[loads[i].id]
       /\ dom[loads[j].el] = site[loads[j].id]
       /\ fetchCount[loads[i].id] = 1

\* C4: once every started load has settled, loadingComponents is empty.
C4_GuardReleasedOnEveryPath == Quiescent => loadingComponents = {}

\* ------------------------------------------------------------------ C5
RECURSIVE Ancestors(_)
Ancestors(i) == IF loads[i].parent = 0 THEN {} ELSE {loads[i].parent} \cup Ancestors(loads[i].parent)

TotalFetches == fetchCount["a"] + fetchCount["b"]

\* No load runs below a load of the same identifier, a suppressed call
\* starts nothing, and a top-level call causes at most one fetch per
\* identifier.
C5_Bounded ==
  /\ \A i \in DOMAIN loads :
       /\ loads[i].path # "suppressed" => \A j \in Ancestors(i) : loads[j].id # loads[i].id
       /\ loads[i].path = "suppressed" => loads[i].phase = "fulfilled" /\ Children(loads, i) = {}
  /\ TotalFetches <= calls * Cardinality(Ids)

\* A nested call that is suppressed leaves its element empty.
C5_ReentrantNoChange ==
  \A k \in DOMAIN loads' :
    (k > Len(loads) /\ loads'[k].path = "suppressed" /\ loads'[k].parent # 0 /\ loads'[k].live)
    => dom'[loads'[k].el] = <<>>

\* A load call has returned a promise and that promise has settled.
PromiseSettled(i) == loads[i].phase \in {"fulfilled", "rejected"}

\* C5: for every reference graph (self reference and longer cycles
\* included), every cache state and every order of fetch completion, a
\* load issues finitely many fetches and its promise settles if each fetch
\* settles; a re-entrant load of an identifier in flight succeeds and
\* changes no DOM.
C5_FiniteAndSettles ==
  /\ []C5_Bounded
  /\ [][C5_ReentrantNoChange]_vars
  /\ <>[](\A i \in TopCalls : PromiseSettled(i))

\* The part of C5 that the code keeps: every load call comes to an end,
\* a synchronous throw counted as an end.
C5_EveryLoadEnds ==
  /\ []C5_Bounded
  /\ [][C5_ReentrantNoChange]_vars
  /\ <>[]Quiescent

\* ------------------------------------------------------------------ C6
\* C6: with the file cache enabled and holding the entry a first,
\* successfully settled load stored for an identifier, a second load of
\* that identifier issues no further fetch, whatever the body is.
C6_SecondLoadServedFromCache ==
  [][\A i \in TopCalls :
       ( /\ NewTopCall /\ NewCall.el \in DOMAIN dom
         /\ NewCall.id = loads[i].id
         /\ loads[i].path = "fetch" /\ loads[i].phase = "fulfilled"
         /\ ActiveLoadsOf(NewCall.id) = {} /\ NewCall.id \notin loadingComponents
         /\ fileCache.enabled /\ NewCall.id \in DOMAIN fileCache.cache )
       => fetchCount'[NewCall.id] = fetchCount[NewCall.id]]_vars

\* ------------------------------------------------------------------ C7
\* C7: while the file cache is disabled, a load of an identifier that no
\* other load is working on issues one fresh fetch, cached before or not,
\* and no step of any load adds or changes a file cache entry.
C7_DisabledCacheAlwaysFetches ==
  [][~fileCache.enabled =>
       /\ loads' # loads => fileCache' = fileCache
       /\ (NewTopCall /\ NewCall.el \in DOMAIN dom /\ ActiveLoadsOf(NewCall.id) = {})
          => fetchCount'[NewCall.id] = fetchCount[NewCall.id] + 1]_vars

\* The part of C7 that the code keeps: the same with "not in the in-flight
\* set" in place of "no other load is working on it".
C7_DisabledCacheFetchesUnlessGuarded ==
  [][~fileCache.enabled =>
       /\ loads' # loads => fileCache' = fileCache
       /\ (NewTopCall /\ NewCall.el \in DOMAIN dom /\ NewCall.id \notin loadingComponents)
          => fetchCount'[NewCall.id] = fetchCount[NewCall.id] + 1]_vars

\* ------------------------------------------------------------------ C8
\* C8: for both caches, under any sequence of set, get, clear, enable and
\* disable: while disabled a get reports absent and the entries can only
\* stay as they are or be cleared (set stores nothing); a change of the
\* flag leaves the entries alone; an enabled get returns what is stored.
C8_DisabledCacheInert ==
  [][\A c \in CacheNames :
       /\ (~TheCache(c).enabled /\ ~TheCache(c)'.enabled)
          => TheCache(c)'.cache \in {TheCache(c).cache, NoEntries}
       /\ TheCache(c)'.enabled # TheCache(c).enabled
          => TheCache(c)'.cache = TheCache(c).cache
       /\ (lastGet' # lastGet /\ lastGet'.cache = c /\ ~TheCache(c).enabled)
          => ~lastGet'.result.found
       /\ (lastGet' # lastGet /\ lastGet'.cache = c /\ TheCache(c).enabled
             /\ lastGet'.key \in DOMAIN TheCache(c).cache)
          => /\ lastGet'.result.found
             /\ lastGet'.result.content = TheCache(c).cache[lastGet'.key]]_vars

\* C8 witness: a disabled cache still holds an entry and the latest get,
\* for that entry, reported absent.
C8_Witness ==
  \E c \in CacheNames :
    /\ ~TheCache(c).enabled
    /\ lastGet.cache = c /\ lastGet.key \in DOMAIN TheCache(c).cache
    /\ ~lastGet.result.found

\* ------------------------------------------------------------------ C9
\* C9: a fetch answered with a non-success status stores nothing and
\* leaves the guard and the DOM alone until the catch handler runs; the
\* handler rejects the promise with that error, removes the identifier
\* from the in-flight set, leaves the file cache as it was and puts an
\* error block naming the identifier and the status in the target.
C9_FailedFetch ==
  [][\A i \in DOMAIN loads :
       /\ (loads[i].phase = "fetching" /\ loads'[i].phase = "failing" /\ loads'[i].err = HttpError)
          => UNCHANGED <<fileCache, loadingComponents, dom, fetchCount>>
       /\ (loads[i].phase = "failing" /\ loads[i].err = HttpError /\ loads'[i].phase # "failing")
          => /\ loads'[i].phase = "rejected" /\ loads'[i].err = HttpError
             /\ loads[i].id \notin loadingComponents'
             /\ fileCache' = fileCache
             /\ loads[i].live
                => dom'[loads[i].el] = << [k |-> "error", ref |-> loads[i].id, msg |-> HttpError] >>]_vars

\* C9 witness: a load was rejected with the status, its target shows the
\* error block, the identifier is neither in flight nor cached.
C9_Witness ==
  \E i \in DOMAIN loads :
    /\ loads[i].phase = "rejected" /\ loads[i].err = HttpError /\ loads[i].live
    /\ dom[loads[i].el] = << [k |-> "error", ref |-> loads[i].id, msg |-> HttpError] >>
    /\ loads[i].id \notin loadingComponents
    /\ loads[i].id \notin DOMAIN fileCache.cache

C11_ScriptsAfterNestedSettled ==
  [][\A i \in DOMAIN loads :
       loads'[i].ran > loads[i].ran
       => /\ loads'[i].phase # "fetching"
          /\ \A j \in Children(loads', i) : loads'[j].phase \in Settled]_vars

\* The part of C11 that the code keeps: in the first revision scripts are
\* executed only by the step in which a load fulfils, after all of that
\* load's nested loads have settled (the scripts it executes are those in
\* its element at that moment, whichever load injected them).
C11_FirstRevisionRunsScriptsAtFulfilment ==
  [][(rev = 1 /\ \E i \in DOMAIN loads : loads'[i].ran > loads[i].ran)
     => \E k \in DOMAIN loads :
          /\ loads[k].phase = "nested" /\ loads'[k].phase = "fulfilled"
          /\ \A j \in Children(loads, k) : loads[j].phase \in Settled]_vars

\* ----------------------------------------------------------------- C12
\* The text load i injected is still the content of its element.
StillInPlace(i) == loads[i].live /\ loads[i].el \in DOMAIN dom /\ scriptOwner[loads[i].el] = i

\* No load is failed by one of its nested references: a load fails only
\* by the status of its own fetch.
NotFailedByNested ==
  \A i \in DOMAIN loads' :
    (loads'[i].phase \in {"failing", "thrown"}
       /\ (i \in DOMAIN loads => loads[i].phase \notin {"failing", "thrown"}))
    => loads'[i].err = HttpError

\* When a parent leaves its waiting phase it fulfils, every nested load has
\* settled, each failed sibling's element shows its error block and each
\* loaded sibling's element holds its content.
JoinedAllSettled ==
  \A i \in DOMAIN loads :
    (loads[i].phase = "nested" /\ loads'[i].phase # "nested")
    => /\ loads'[i].phase = "fulfilled"
       /\ \A j \in Children(loads, i) : loads[j].phase \in Settled
       /\ StillInPlace(i)
          => \A j \in Children(loads, i) :
               /\ loads[j].phase = "rejected"
                  => dom[loads[j].el] = ErrorBlock(loads[j].id, loads[j].err)
               /\ (loads[j].phase = "fulfilled" /\ loads[j].path # "suppressed")
                  => dom[loads[j].el] = site[loads[j].id]

\* C12: the nested references of a fragment are joined all-settled: a
\* failing reference does not fail the parent, the siblings run to
\* completion and are in the DOM, the failed one shows its error block.
C12_SiblingsAllSettled == [][NotFailedByNested /\ JoinedAllSettled]_vars

\* The part of C12 that the code keeps: the same for fragments that hold no
\* script-file reference, and for the first revision.
NoScriptFileReference == \A id \in DOMAIN site : \A n \in DOMAIN site[id] : site[id][n].k # "js"

C12_FragmentSiblingsAllSettled ==
  [][(rev = 1 \/ NoScriptFileReference) => (NotFailedByNested /\ JoinedAllSettled)]_vars

\* C12 witness: a parent has fulfilled with one nested load rejected (its
\* element shows the error block) and a sibling loaded into the DOM.
C12_Witness ==
  \E i \in DOMAIN loads :
    /\ loads[i].phase = "fulfilled" /\ StillInPlace(i)
    /\ \E j, k \in Children(loads, i) :
         /\ loads[j].phase = "rejected" /\ loads[j].err = HttpError
         /\ dom[loads[j].el] = ErrorBlock(loads[j].id, HttpError)
         /\ loads[k].phase = "fulfilled" /\ loads[k].path = "fetch"
         /\ dom[loads[k].el] = site[loads[k].id]

\* ------------------------------------------------------- C13 .. C20
NewBuild == Len(builds') = Len(builds) + 1
NewProcs == (DOMAIN procs') \ (DOMAIN procs)

\* ----------------------------------------------------------------- C19
\* C19: a condition is evaluated once, before anything else is done for the
\* spec, and never again; when it is falsy the spec is skipped: no layout
\* element, no prop function called, no loader call, no child processed,
\* and the outcome is a fulfilled no-op.  A step that processes skipped
\* specs only issues no fetch, leaves the in-flight set alone and adds
\* nothing to the document.
C19_FalseConditionSkipsSpec ==
  [][/\ \A k \in NewProcs :
          /\ ~procs'[k].spec.str /\ procs'[k].spec.cond \in {"true", "false"}
             => procs'[k].condEvals = 1
          /\ ~procs'[k].spec.str /\ procs'[k].spec.cond = "false"
             => /\ procs'[k].phase = "skipped"
                /\ ProcSettled(procs', loads', k)
                /\ procs'[k].propEvals = 0
                /\ procs'[k].layouts = 0
                /\ procs'[k].load = 0
     /\ (NewProcs # {} /\ \A k \in NewProcs : procs'[k].phase = "skipped")
        => /\ Len(loads') = Len(loads)
           /\ fetchCount' = fetchCount
           /\ loadingComponents' = loadingComponents
           /\ DOMAIN dom' \subseteq DOMAIN dom
           /\ \A p \in DOMAIN dom' : dom'[p] \in {dom[p], <<>>}
     /\ \A k \in DOMAIN procs :
          /\ procs'[k].condEvals = procs[k].condEvals
          /\ procs[k].phase = "skipped" => procs'[k] = procs[k]
     /\ \A j \in DOMAIN procs' :
          procs'[j].parent # 0 => procs'[procs'[j].parent].phase # "skipped"]_vars

\* C19 witness: a page whose spec has a false condition, children, a layout
\* and a computed prop has been built and its promise has fulfilled.
C19_Witness ==
  \E k \in DOMAIN procs :
    /\ procs[k].phase = "skipped"
    /\ procs[k].spec.cond = "false"
    /\ procs[k].spec.children # <<>>
    /\ procs[k].spec.layout # ""
    /\ procs[k].spec.props # <<>>
    /\ builds[procs[k].build].phase = "fulfilled"

\* ----------------------------------------------------------------- C20
\* C20: buildPage with a selector that matches no element returns a
\* rejected promise and does nothing else: no spec is processed, no fetch
\* is issued, no metadata is applied, the page cache is neither read nor
\* written, the document is untouched.
C20_MissingTargetRejected ==
  [][(NewBuild /\ <<builds'[Len(builds')].target>> \notin DOMAIN dom)
     => /\ builds'[Len(builds')].phase = "rejected"
        /\ ~builds'[Len(builds')].read
        /\ ~builds'[Len(builds')].meta
        /\ procs' = procs
        /\ loads' = loads
        /\ fetchCount' = fetchCount
        /\ loadingComponents' = loadingComponents
        /\ pageCache' = pageCache
        /\ dom' = dom]_vars

\* C20 witness: a titled page was built and cached, then built again for a
\* selector that matches nothing, and that call was rejected.
C20_Witness ==
  \E b \in DOMAIN builds : \E c \in DOMAIN builds :
    /\ c < b
    /\ builds[c].phase = "fulfilled"
    /\ builds[c].key \in DOMAIN pageCache.cache
    /\ builds[b].def = builds[c].def
    /\ PageDefs[builds[b].def].title # ""
    /\ builds[b].phase = "rejected"
    /\ <<builds[b].target>> \notin DOMAIN dom

\* ----------------------------------------------------------------- C13
\* The only earlier build of the definition and target of the call made in
\* this step, when that build has fulfilled (0 otherwise).
SettledTwin ==
  LET b == Len(builds')
      same == {c \in DOMAIN builds : builds[c].def = builds'[b].def}
  IN IF NewBuild /\ Cardinality(same) = 1
        /\ \A c \in same : builds[c].phase = "fulfilled" /\ builds[c].target = builds'[b].target
     THEN CHOOSE c \in same : TRUE
     ELSE 0

\* The call made in this step is answered from the page cache: the target
\* gets the first call's final markup, no spec is processed, no loader is
\* called, no fetch is issued, no script runs, no metadata is applied.
ServedFromCache(c) ==
  LET b == Len(builds')
  IN /\ builds'[b].phase = "cached"
     /\ Markup(dom', <<builds'[b].target>>) = builds[c].markup
     /\ ~builds'[b].meta
     /\ Len(procs') = Len(procs)
     /\ Len(loads') = Len(loads)
     /\ fetchCount' = fetchCount
     /\ \A i \in DOMAIN loads : loads'[i].ran = loads[i].ran

\* C13: with page caching enabled, a second buildPage call with the same
\* page definition and cacheKey, made after the first has settled, is
\* served from the page cache.
C13_SecondBuildServedFromCache ==
  [][(SettledTwin # 0 /\ pageCache.enabled /\ PageDefs[builds'[Len(builds')].def].cacheKey # "")
     => ServedFromCache(SettledTwin)]_vars

\* C13, for the pages whose final markup is not the empty string.
C13_NonEmptyPageServedFromCache ==
  [][(/\ SettledTwin # 0 /\ pageCache.enabled
      /\ PageDefs[builds'[Len(builds')].def].cacheKey # ""
      /\ builds[SettledTwin].markup[<<>>] # <<>>)
     => ServedFromCache(SettledTwin)]_vars

\* C13: a titled page with a layout section has been built twice, the
\* second time from the cache, and the target holds the first markup.
C13_Witness ==
  /\ Len(builds) = 2
  /\ builds[1].phase = "fulfilled"
  /\ builds[2].phase = "cached"
  /\ builds[2].def = builds[1].def
  /\ PageDefs[builds[1].def].title # ""
  /\ PageDefs[builds[1].def].cacheKey # ""
  /\ Cardinality(DOMAIN builds[1].markup) > 1
  /\ Markup(dom, <<builds[2].target>>) = builds[1].markup

\* ----------------------------------------------------------------- C14
\* The call made in this step gives no cacheKey and builds a component list
\* that no earlier call has built.
NewComponentList ==
  LET b == Len(builds')
  IN /\ NewBuild
     /\ PageDefs[builds'[b].def].cacheKey = ""
     /\ \A c \in DOMAIN builds :
          PageDefs[builds[c].def].components # PageDefs[builds'[b].def].components

\* C14: without an explicit cacheKey the derived key tells page definitions
\* apart by their components and target: a call for a component list that
\* was never built before is not answered from the page cache.
C14_DerivedKeyDistinguishesPages ==
  [][NewComponentList => builds'[Len(builds')].phase # "cached"]_vars

\* C14, first revision: the key is the first 50 characters of the JSON text.
C14_FirstRevisionKeyDistinguishesPages ==
  [][(rev = 1 /\ NewComponentList) => builds'[Len(builds')].phase # "cached"]_vars

\* C14: a page was built and cached under a derived key, and a page with
\* another component list was then built into the same target.
C14_Witness ==
  /\ Len(builds) = 2
  /\ builds[1].phase = "fulfilled"
  /\ builds[1].key.kind \notin {"none", "explicit"}
  /\ builds[1].key \in DOMAIN pageCache.cache
  /\ builds[2].target = builds[1].target
  /\ PageDefs[builds[2].def].cacheKey = ""
  /\ PageDefs[builds[2].def].components # PageDefs[builds[1].def].components
  /\ Head(PageDefs[builds[2].def].components) = Head(PageDefs[builds[1].def].components)
  /\ builds[2].phase = "building"

\* ----------------------------------------------------------------- C15
\* The call made in this step found its target and missed the page cache.
BuildStarted ==
  /\ NewBuild
  /\ <<builds'[Len(builds')].target>> \in DOMAIN dom
  /\ builds'[Len(builds')].phase # "cached"

\* The call made in this step returned a promise, and every spec of the
\* definition was processed, in definition order, each with its own outcome.
OneOutcomePerSpec ==
  LET b == Len(builds')
      components == PageDefs[builds'[b].def].components
  IN /\ builds'[b].phase = "building"
     /\ Len(procs') = Len(procs) + Len(components)
     /\ \A n \in DOMAIN components :
          /\ procs'[Len(procs) + n].spec = components[n]
          /\ procs'[Len(procs) + n].build = b
          /\ procs'[Len(procs) + n].parent = 0
          /\ procs'[Len(procs) + n].phase # "thrown"

\* A page promise fulfils with one settled outcome per spec, and never
\* settles otherwise.
FulfilsWithAllOutcomes ==
  \A b \in DOMAIN builds :
    (builds[b].phase = "building" /\ builds'[b].phase # "building")
    => /\ builds'[b].phase = "fulfilled"
       /\ Cardinality(ProcsOf(procs, b, 0)) = Len(PageDefs[builds[b].def].components)
       /\ \A k \in ProcsOf(procs, b, 0) : ProcSettled(procs, loads, k)

\* C15: after the target is found and the cache missed, buildPage returns a
\* promise that fulfils with one outcome per spec; a failure in one spec,
\* a throwing condition or prop function included, stays in that spec's
\* outcome and every sibling is processed.
C15_OneOutcomePerSpec ==
  [][(BuildStarted => OneOutcomePerSpec) /\ FulfilsWithAllOutcomes]_vars

HasThrowingFunction(spec) == ~spec.str /\ (spec.cond = "throws" \/ PropThrows(spec.props))

\* C15, for the definitions none of whose top-level specs has a condition
\* or prop function that throws.
C15_FetchFailuresIsolated ==
  [][((BuildStarted /\ \A n \in DOMAIN PageDefs[builds'[Len(builds')].def].components :
                         ~HasThrowingFunction(PageDefs[builds'[Len(builds')].def].components[n]))
      => OneOutcomePerSpec)
     /\ FulfilsWithAllOutcomes]_vars

\* C15: a page promise has fulfilled with the outcome of a failed fetch
\* next to the outcome of a sibling whose fragment was injected.
C15_Witness ==
  \E b \in DOMAIN builds : \E k, j \in ProcsOf(procs, b, 0) :
    /\ builds[b].phase = "fulfilled"
    /\ ProcPhase(procs, loads, k) = "rejected"
    /\ loads[procs[k].load].err = HttpError
    /\ j > k
    /\ ProcPhase(procs, loads, j) = "fulfilled"
    /\ loads[procs[j].load].path = "fetch"

\* ----------------------------------------------------------------- C16
\* The page promise of build b fulfils in this step.
PageFulfils(b) == builds[b].phase = "building" /\ builds'[b].phase = "fulfilled"

\* The top-level specs of build b that were not skipped and whose load did
\* not end in a rejection.
SpecsDue(b) ==
  {k \in ProcsOf(procs, b, 0) : procs[k].phase # "skipped" /\ loads[procs[k].load].phase # "rejected"}

\* C16: when the page promise settles after a cache miss, every spec whose
\* condition holds and whose fetch did not fail has had its fragment
\* injected into its container, also when two specs name the same fragment.
C16_EverySpecInjected ==
  [][\A b \in DOMAIN builds :
       PageFulfils(b) => \A k \in SpecsDue(b) : loads[procs[k].load].path \in {"fetch", "cache"}]_vars

\* C16, apart from the in-flight guard: a spec's fragment is left out only
\* when another load of the same path was running when the spec was processed.
C16_OnlyTheGuardLeavesSpecsOut ==
  [][\A b \in DOMAIN builds :
       PageFulfils(b) => \A k \in SpecsDue(b) :
                           \/ loads[procs[k].load].path \in {"fetch", "cache"}
                           \/ loads[procs[k].load].dup]_vars

\* C16: a page with two sections has fulfilled and both sections hold
\* their fragment.
C16_Witness ==
  \E b \in DOMAIN builds : \E k, j \in ProcsOf(procs, b, 0) :
    /\ builds[b].phase = "fulfilled"
    /\ k # j
    /\ \A n \in {k, j} : /\ loads[procs[n].load].path = "fetch"
                         /\ loads[procs[n].load].phase = "fulfilled"

\* ----------------------------------------------------------------- C17
\* No child spec is processed before its parent's load has settled.
ChildrenAfterParentLoad ==
  \A j \in NewProcs :
    procs'[j].parent # 0
    => loads[procs[procs'[j].parent].load].phase \in {"fulfilled", "rejected"}

\* Spec k, which has children, leaves the wait for its load in this step
\* with every child processed into its element.
ChildrenProcessed(k) ==
  /\ procs'[k].phase = "children"
  /\ Len(procs') = Len(procs) + Len(procs[k].spec.children)
  /\ \A n \in DOMAIN procs[k].spec.children :
       /\ procs'[Len(procs) + n].spec = procs[k].spec.children[n]
       /\ procs'[Len(procs) + n].parent = k
       /\ procs'[Len(procs) + n].load # 0
          => loads'[procs'[Len(procs) + n].load].el = procs[k].el

\* A spec with a layout gets its element created when it is processed.
LayoutCreated ==
  \A k \in NewProcs :
    (~procs'[k].spec.str /\ procs'[k].spec.layout # "" /\ procs'[k].phase \notin {"skipped", "thrown"})
    => procs'[k].layouts = 1

\* C17: the children of an object spec are processed only after the
\* parent's load has settled, and whether it succeeded or failed; a
\* layout-only spec gets its element and all its children.
C17_ChildrenProcessedAfterParentSettles ==
  [][/\ ChildrenAfterParentLoad
     /\ LayoutCreated
     /\ \A k \in DOMAIN procs :
          (procs[k].phase = "waiting" /\ procs'[k].phase # "waiting") => ChildrenProcessed(k)]_vars

\* C17, for the parents whose load fulfilled.
C17_ChildrenProcessedAfterParentFulfils ==
  [][/\ ChildrenAfterParentLoad
     /\ LayoutCreated
     /\ \A k \in DOMAIN procs :
          (/\ procs[k].phase = "waiting" /\ procs'[k].phase # "waiting"
           /\ loads[procs[k].load].phase = "fulfilled")
          => ChildrenProcessed(k)]_vars

\* C17: a layout-only section has been built and its child's fragment
\* was fetched into the section's element.
C17_Witness ==
  \E k \in DOMAIN procs : \E j \in ProcsOf(procs, procs[k].build, k) :
    /\ procs[k].spec.name = ""
    /\ procs[k].layouts = 1
    /\ procs[k].phase = "fulfilled"
    /\ loads[procs[j].load].path = "fetch"
    /\ loads[procs[j].load].phase = "fulfilled"
    /\ loads[procs[j].load].el = procs[k].el

\* ----------------------------------------------------------------- C18
RECURSIVE CountFunctions(_)
CountFunctions(props) ==
  IF props = <<>> THEN 0
  ELSE (IF Head(props).how = "value" THEN 0 ELSE 1) + CountFunctions(Tail(props))

\* No {{key}} of html has its key in props.
NoPlaceholderLeft(html, props) ==
  \A n \in DOMAIN html :
    html[n].k = "ph" => \A m \in DOMAIN props : props[m].key # html[n].ref

\* Every spec with props processed in this step had each prop function
\* called once and its loader called with the resulting map.
PropsPassed ==
  \A k \in NewProcs :
    (procs'[k].spec.props # <<>> /\ procs'[k].load # 0)
    => /\ procs'[k].propEvals = CountFunctions(procs'[k].spec.props)
       /\ procs'[k].passed = ProcessedProps(procs'[k].spec.props)
       /\ loads'[procs'[k].load].path # "suppressed"
          => loads'[procs'[k].load].props = ProcessedProps(procs'[k].spec.props)

\* The markup injected in this step for a spec with props holds none of
\* the placeholders the props name.
PlaceholdersReplaced ==
  \A k \in DOMAIN procs' :
    LET i == procs'[k].load
        injected == \/ i \in DOMAIN loads /\ loads[i].phase = "fetching" /\ loads'[i].phase = "nested"
                    \/ i \notin DOMAIN loads /\ loads'[i].path = "cache"
    IN (/\ procs'[k].spec.props # <<>> /\ i # 0 /\ injected
        /\ loads'[i].live /\ loads'[i].el \in DOMAIN dom')
       => NoPlaceholderLeft(dom'[loads'[i].el], procs'[k].spec.props)

\* C18: in both revisions the prop functions of an object spec are
\* evaluated once, the loader gets the resulting map, and the injected
\* markup has every {{key}} named by the props replaced.
C18_PropsReachTheFragment ==
  [][PropsPassed /\ PlaceholdersReplaced /\ \A k \in DOMAIN procs : procs'[k].propEvals = procs[k].propEvals]_vars

\* C18, first revision.
C18_FirstRevisionPropsReachTheFragment ==
  [][rev = 1 => (/\ PropsPassed /\ PlaceholdersReplaced
                 /\ \A k \in DOMAIN procs : procs'[k].propEvals = procs[k].propEvals)]_vars

\* C18, second revision: the prop functions are evaluated once.
C18_PropFunctionsEvaluatedOnce ==
  [][/\ \A k \in NewProcs :
          (procs'[k].spec.props # <<>> /\ procs'[k].load # 0)
          => procs'[k].propEvals = CountFunctions(procs'[k].spec.props)
     /\ \A k \in DOMAIN procs : procs'[k].propEvals = procs[k].propEvals]_vars

\* C18: a card with a computed title has been fetched into its section
\* and the section shows the title in place of the placeholder.
C18_Witness ==
  \E k \in DOMAIN procs :
    /\ procs[k].spec.props # <<>>
    /\ procs[k].propEvals = 1
    /\ procs[k].live
    /\ loads[procs[k].load].phase = "fulfilled"
    /\ dom[procs[k].el] = <<Value("hello"), TextNode>>

\* ------------------------------------------------------- C21 .. C30
OtherCache(c) == IF c = "file" THEN "page" ELSE "file"

\* ----------------------------------------------------------------- C26
\* C26: for each cache, while it is enabled: a set stores the content under
\* its key, replacing the prior entry and leaving every other entry alone;
\* an entry changes only by a set for its key or by a clear, and a get
\* returns exactly what is stored, so that get(k) returns c from set(k, c)
\* until the next set(k, .) or clear(); a get changes no cache; no
\* operation on one cache changes the entries or the flag of the other.
C26_SetGetAlgebra ==
  [][\A c \in CacheNames :
       /\ \A key \in CacheKeys, content \in CacheContents :
            (CacheOpSet(c, key, content) /\ TheCache(c).enabled)
            => /\ DOMAIN TheCache(c)'.cache = (DOMAIN TheCache(c).cache) \cup {key}
               /\ TheCache(c)'.cache[key] = content
               /\ \A q \in (DOMAIN TheCache(c).cache) \ {key} :
                    TheCache(c)'.cache[q] = TheCache(c).cache[q]
               /\ TheCache(c)'.enabled
       /\ \A key \in CacheKeys :
            CacheOpGet(c, key)
            => /\ fileCache' = fileCache /\ pageCache' = pageCache
               /\ (TheCache(c).enabled /\ key \in DOMAIN TheCache(c).cache)
                  => /\ lastGet'.result.found
                     /\ lastGet'.result.content = TheCache(c).cache[key]
               /\ (TheCache(c).enabled /\ key \notin DOMAIN TheCache(c).cache)
                  => ~lastGet'.result.found
       /\ \A q \in DOMAIN TheCache(c).cache :
            \/ q \in DOMAIN TheCache(c)'.cache /\ TheCache(c)'.cache[q] = TheCache(c).cache[q]
            \/ \E content \in CacheContents : CacheOpSet(c, q, content)
            \/ CacheOpClear(c)
       /\ TheCache(c)' # TheCache(c) => TheCache(OtherCache(c))' = TheCache(OtherCache(c))]_vars

\* C26 witness: an enabled cache holds two different entries, one of them
\* the empty text, and the latest get returned the stored empty text while
\* the other cache holds something else under the same key.
C26_Witness ==
  \E c \in CacheNames :
    /\ TheCache(c).enabled
    /\ DOMAIN TheCache(c).cache = CacheKeys
    /\ TheCache(c).cache["a"] # TheCache(c).cache["b"]
    /\ lastGet.cache = c
    /\ lastGet.result.found
    /\ lastGet.result.content = <<>>
    /\ TheCache(c).cache[lastGet.key] = <<>>
    /\ lastGet.key \in DOMAIN TheCache(OtherCache(c)).cache
    /\ TheCache(OtherCache(c)).cache[lastGet.key] # <<>>

\* ----------------------------------------------------------------- C27
\* C27: clearFileCache() empties the file cache, leaves the flag, the page
\* cache and the in-flight set alone, and the next load of an identifier
\* that no other load is working on issues a fetch.
C27_LoadAfterClearFetches ==
  [][/\ ClearFileCache
        => /\ fileCache'.cache = NoEntries
           /\ fileCache'.enabled = fileCache.enabled
           /\ pageCache' = pageCache
           /\ loadingComponents' = loadingComponents
     /\ (/\ NewTopCall /\ NewCall.el \in DOMAIN dom
         /\ fileCache.cache = NoEntries
         /\ ActiveLoadsOf(NewCall.id) = {})
        => fetchCount'[NewCall.id] = fetchCount[NewCall.id] + 1]_vars

\* C27 with "not in the in-flight set" in place of "no other load is
\* working on it".
C27_LoadAfterClearFetchesUnlessGuarded ==
  [][/\ ClearFileCache
        => /\ fileCache'.cache = NoEntries
           /\ fileCache'.enabled = fileCache.enabled
           /\ pageCache' = pageCache
           /\ loadingComponents' = loadingComponents
     /\ (/\ NewTopCall /\ NewCall.el \in DOMAIN dom
         /\ fileCache.cache = NoEntries
         /\ NewCall.id \notin loadingComponents)
        => fetchCount'[NewCall.id] = fetchCount[NewCall.id] + 1]_vars

\* C27 witness: an identifier was fetched and cached, the file cache was
\* cleared, and the next load of the identifier fetched again.
C27_Witness ==
  \E i, j \in TopCalls :
    /\ i < j
    /\ loads[i].id = loads[j].id
    /\ loads[i].path = "fetch" /\ loads[i].phase = "fulfilled"
    /\ loads[j].path = "fetch" /\ ~loads[j].dup
    /\ fileCache.enabled
    /\ fileCache.cache = NoEntries
    /\ fetchCount[loads[i].id] = 2

\* ----------------------------------------------------------------- C25
\* The text of load i is injected in this step: on the arrival of its
\* response, or at the call when the file cache holds the text.
InjectedByFetch(i) ==
  i \in DOMAIN loads /\ loads[i].phase = "fetching" /\ loads'[i].phase = "nested"
InjectedFromCache(i) ==
  i \in (DOMAIN loads') \ (DOMAIN loads) /\ loads'[i].path = "cache"

\* C25: processTemplate(T, P) is T when P is empty, for every template,
\* those holding placeholders included: a load without props injects and
\* caches the served text as it is.
C25_EmptyPropsIdentity ==
  [][/\ \A id \in DOMAIN site : ProcessTemplate(site[id], NoProps) = site[id]
     /\ \A i \in DOMAIN loads' :
          /\ (InjectedByFetch(i) /\ loads[i].props = NoProps)
             => /\ dom'[loads[i].el] = site[loads[i].id]
                /\ fileCache'.cache[loads[i].id] = site[loads[i].id]
          /\ (InjectedFromCache(i) /\ loads'[i].props = NoProps)
             => dom'[loads'[i].el] = fileCache.cache[loads'[i].id]]_vars

\* C25 witness: a template with two different placeholders was loaded
\* without props, first from the network and then from the file cache,
\* and both elements show the template.
C25_Witness ==
  \E i, j \in DOMAIN loads :
    /\ loads[i].props = NoProps /\ loads[i].path = "fetch" /\ loads[i].phase = "fulfilled"
    /\ loads[j].props = NoProps /\ loads[j].path = "cache" /\ loads[j].phase = "fulfilled"
    /\ loads[i].el # loads[j].el
    /\ dom[loads[i].el] = site["t"]
    /\ dom[loads[j].el] = site["t"]
    /\ \E n, m \in DOMAIN site["t"] :
         site["t"][n].k = "ph" /\ site["t"][m].k = "ph" /\ site["t"][n].ref # site["t"][m].ref

\* ----------------------------------------------------------------- C24
Keys(props) == {props[n].key : n \in DOMAIN props}
ValueOf(props, key) == props[CHOOSE n \in DOMAIN props : props[n].key = key].value

\* T with each {{k}}, k a key of P, replaced by the text of P[k], and
\* everything else left as it is.
RECURSIVE Substituted(_, _)
Substituted(t, props) ==
  IF t = <<>> THEN <<>>
  ELSE (IF Head(t).k = "ph" /\ Head(t).ref \in Keys(props)
        THEN ValueOf(props, Head(t).ref)
        ELSE <<Head(t)>>)
       \o Substituted(Tail(t), props)

\* T holds the token {{k}} for every key k of P.
HoldsEveryKey(t, props) ==
  \A key \in Keys(props) : \E n \in DOMAIN t : t[n].k = "ph" /\ t[n].ref = key

\* No value of P holds a token of a key of P.
NoTokenOfOwnKeys(props) ==
  \A n \in DOMAIN props : NoPlaceholderLeft(props[n].value, props)

\* Every value of P is plain text: no token, no replacement pattern.
PlainValues(props) ==
  \A n \in DOMAIN props : \A m \in DOMAIN props[n].value : props[n].value[m].k = "text"

\* C24: for a non-empty P and a template holding {{k}} for each key of P,
\* the text a load injects is the template with the text of P[k] at every
\* place where {{k}} stood, whatever the values hold and in whatever order
\* the keys come, and with the other placeholders left as they are; no
\* {{k}} of P remains unless a value spells one.
C24_ValuesStandWherePlaceholdersStood ==
  [][\A i \in DOMAIN loads :
       (/\ InjectedByFetch(i) /\ loads[i].props # NoProps
        /\ HoldsEveryKey(site[loads[i].id], loads[i].props))
       => /\ dom'[loads[i].el] = Substituted(site[loads[i].id], loads[i].props)
          /\ NoTokenOfOwnKeys(loads[i].props)
             => NoPlaceholderLeft(dom'[loads[i].el], loads[i].props)]_vars

\* C24, for values of plain text.
C24_PlainValuesSubstituted ==
  [][\A i \in DOMAIN loads :
       (/\ InjectedByFetch(i) /\ loads[i].props # NoProps
        /\ HoldsEveryKey(site[loads[i].id], loads[i].props)
        /\ PlainValues(loads[i].props))
       => /\ dom'[loads[i].el] = Substituted(site[loads[i].id], loads[i].props)
          /\ NoPlaceholderLeft(dom'[loads[i].el], loads[i].props)]_vars

\* C24 witness: a template holding {{b}} twice and {{a}} once was loaded
\* with plain values for both and the element shows the values.
C24_Witness ==
  \E i \in DOMAIN loads :
    /\ loads[i].path = "fetch" /\ loads[i].phase = "fulfilled"
    /\ Keys(loads[i].props) = {"a", "b"}
    /\ Len(site["t"]) = 3
    /\ dom[loads[i].el] = <<Value("2"), Value("1"), Value("2")>>

\* ----------------------------------------------------------------- C23
\* The call made in this step loads an identifier that an earlier call with
\* other props fetched successfully; the file cache is enabled and holds
\* the text that call injected, and no load of the identifier is running.
LaterLoadWithOtherProps(i) ==
  /\ NewTopCall /\ NewCall.el \in DOMAIN dom
  /\ i \in DOMAIN loads
  /\ loads[i].id = NewCall.id
  /\ loads[i].path = "fetch" /\ loads[i].phase = "fulfilled"
  /\ loads[i].props # NewCall.props
  /\ \A j \in DOMAIN loads : loads[j].id = NewCall.id /\ loads[j].path = "fetch" => j = i
  /\ NewCall.id \notin loadingComponents
  /\ fileCache.enabled
  /\ NewCall.id \in DOMAIN fileCache.cache
  /\ fileCache.cache[NewCall.id] # <<>>

\* C23: the file cache stores the text after substitution, and a later
\* load of the identifier with any other props injects exactly the text
\* the first call injected, in both revisions.
C23_LaterLoadInjectsFirstText ==
  [][\A i \in DOMAIN loads :
       LaterLoadWithOtherProps(i)
       => /\ fileCache.cache[NewCall.id] = ProcessTemplate(site[NewCall.id], loads[i].props)
          /\ NewCall.path = "cache"
          /\ dom'[NewCall.el] = ProcessTemplate(site[NewCall.id], loads[i].props)]_vars

\* C23, second revision: the cached text is injected as it is.
C23_SecondRevisionInjectsFirstText ==
  [][\A i \in DOMAIN loads :
       (rev = 2 /\ LaterLoadWithOtherProps(i))
       => /\ fileCache.cache[NewCall.id] = ProcessTemplate(site[NewCall.id], loads[i].props)
          /\ NewCall.path = "cache"
          /\ dom'[NewCall.el] = ProcessTemplate(site[NewCall.id], loads[i].props)]_vars

\* C23, first revision: the cached text is substituted again, with the
\* props of the later call.
C23_FirstRevisionSubstitutesAgain ==
  [][\A i \in DOMAIN loads :
       (rev = 1 /\ LaterLoadWithOtherProps(i))
       => /\ fileCache.cache[NewCall.id] = ProcessTemplate(site[NewCall.id], loads[i].props)
          /\ NewCall.path = "cache"
          /\ dom'[NewCall.el] =
               ProcessTemplate(ProcessTemplate(site[NewCall.id], loads[i].props), NewCall.props)]_vars

\* C23 witness: a template was loaded with a value for a, then loaded
\* with another value for a, and both elements show the first value.
C23_Witness ==
  \E i, j \in DOMAIN loads :
    /\ i < j
    /\ loads[i].path = "fetch" /\ loads[i].phase = "fulfilled"
    /\ loads[j].path = "cache" /\ loads[j].phase = "fulfilled"
    /\ loads[i].props = <<Prop("a", <<Value("1")>>)>>
    /\ loads[j].props = <<Prop("a", <<>>)>>
    /\ loads[i].el # loads[j].el
    /\ dom[loads[j].el] = dom[loads[i].el]
    /\ dom[loads[i].el] = ProcessTemplate(site["t"], loads[i].props)


\* ----------------------------------------------------------------- C21
\* The build started in this step, or build b, is of a page definition with
\* cache: false.
UncachedPage(b) == PageDefs[b.def].cache = "false"

\* A call of buildPage for a definition with cache: false, and the settling
\* of such a build, leave the page cache as it is, and the call is not
\* answered from the cache.
UncachedBuildLeavesCacheAlone ==
  /\ (NewBuild /\ UncachedPage(builds'[Len(builds')]))
       => /\ builds'[Len(builds')].phase # "cached"
          /\ pageCache' = pageCache
  /\ \A b \in DOMAIN builds :
       (PageFulfils(b) /\ UncachedPage(builds[b])) => pageCache' = pageCache

\* C21: buildPage for a definition with cache: false never replaces the
\* target with cached markup, never stores an entry in the page cache and
\* leaves the enabled flag unchanged, whatever the flag and the entries are.
C21_UncachedBuildLeavesCacheAlone == [][UncachedBuildLeavesCacheAlone]_vars

\* C21, second revision only: there the cache setting of the definition is
\* honoured.
C21_SecondRevisionHonoursSetting == [][rev = 2 => UncachedBuildLeavesCacheAlone]_vars

\* C21: a build of a definition with cache: false has settled while an entry
\* was stored under its key, with the page cache switched on.
C21_Witness ==
  \E b \in DOMAIN builds :
    /\ UncachedPage(builds[b])
    /\ builds[b].phase = "fulfilled"
    /\ \E c \in 1..(b - 1) : builds[c].phase = "fulfilled" /\ builds[c].def = 3
    /\ pageCache.enabled

\* ----------------------------------------------------------------- C22
\* The build started in this step was called with cache options.
BuildWithOptions(o) == NewBuild /\ builds'[Len(builds')].options = o

\* With { enabled: false } the call does not look into the page cache and
\* the settling of the build stores nothing.
DisabledOptionObeyed ==
  /\ BuildWithOptions(DisabledOption)
       => /\ ~builds'[Len(builds')].read
          /\ builds'[Len(builds')].phase # "cached"
  /\ \A b \in DOMAIN builds :
       (PageFulfils(b) /\ builds[b].options = DisabledOption) => pageCache' = pageCache

\* With { key: K } and no cacheKey in the definition the call looks up K and
\* the settling of the build stores the markup under K.
KeyOptionObeyed ==
  /\ (BuildWithOptions(KeyOption("K")) /\ PageDefs[builds'[Len(builds')].def].cacheKey = ""
        /\ builds'[Len(builds')].read)
       => builds'[Len(builds')].key = ExplicitKey("K")
  /\ \A b \in DOMAIN builds :
       (PageFulfils(b) /\ builds[b].options = KeyOption("K") /\ PageDefs[builds[b].def].cacheKey = "")
         => pageCache' \in {pageCache,
                            CacheSet(pageCache, ExplicitKey("K"), Markup(dom, <<builds[b].target>>))}

\* C22: cache options passed as the fourth argument of buildPage take
\* effect: { enabled: false } keeps the build from reading and writing the
\* page cache, { key: K } makes it look up and store under K.
C22_CacheOptionsTakeEffect == [][DisabledOptionObeyed /\ KeyOptionObeyed]_vars

\* C22, what the code does: a call with cache options reads the page cache
\* and chooses its key exactly as the same call without them.
C22_CacheOptionsIgnored ==
  [][ \A o \in PageOptions : BuildWithOptions(o) =>
        LET B == builds'[Len(builds')]
            def == PageDefs[B.def]
            useCache == rev = 1 \/ UseCache(def, NoOptions)
            key == IF rev = 1 THEN FirstRevisionKey(def)
                   ELSE SecondRevisionKey(def, B.target, useCache, NoOptions)
        IN <<B.target>> \in DOMAIN dom => B.useCache = useCache /\ B.key = key ]_vars

\* C22: a build called with { enabled: false } and one called with
\* { key: K } have both settled.
C22_Witness ==
  /\ \E b \in DOMAIN builds : builds[b].options = DisabledOption /\ builds[b].phase = "fulfilled"
  /\ \E b \in DOMAIN builds : builds[b].options = KeyOption("K") /\ builds[b].phase = "fulfilled"
                              /\ PageDefs[builds[b].def].cacheKey = ""


\* ----------------------------------------------------------------- C29
\* Load i came through replaceComponent and its promise fulfils in this
\* step: the call is answered with a fulfilled promise, or the running load
\* finishes.
ReplaceFulfils(i) ==
  /\ loads'[i].via = "replace"
  /\ loads'[i].phase = "fulfilled"
  /\ (i \in DOMAIN loads => loads[i].phase # "fulfilled")

\* The element of load i holds the text of the component.
HoldsComponent(i) == dom'[loads'[i].el] = site[loads'[i].id]

\* C29: whenever the promise of replaceComponent(selector, path) fulfils,
\* the element holds the new component's content, whatever loads of the
\* same path are in flight when it is called.
C29_FulfilledReplaceShowsComponent ==
  [][\A i \in DOMAIN loads' : ReplaceFulfils(i) => HoldsComponent(i)]_vars

\* No other call was aimed at the element of load i.
Undisturbed(i) == \A j \in DOMAIN loads' : j # i => loads'[j].el # loads'[i].el

\* C29 without the guard: a replaceComponent call that was not suppressed,
\* and whose element no other call was aimed at, shows the new component
\* when its promise fulfils.
C29_UnsuppressedReplaceShowsComponent ==
  [][\A i \in DOMAIN loads' :
       (ReplaceFulfils(i) /\ loads'[i].path # "suppressed" /\ Undisturbed(i))
         => HoldsComponent(i)]_vars

\* C29: a replaceComponent call made while another load of the same path was
\* in flight has fulfilled.
C29_Witness ==
  \E i \in DOMAIN loads :
    loads[i].via = "replace" /\ loads[i].phase = "fulfilled" /\ loads[i].dup

\* ----------------------------------------------------------------- C28
\* A reloadAll call was made in this step.
NewReload == Len(reloads') = Len(reloads) + 1

\* Every loader call the new reloadAll made and the guard let through
\* went to the network.
ReloadFetches ==
  \A j \in reloads'[Len(reloads')].loads :
    loads'[j].path # "suppressed" => loads'[j].path = "fetch" /\ fetchCount'[loads'[j].id] > fetchCount[loads'[j].id]

\* The promise of reloadAll call n settles in this step.
ReloadSettles(n) == reloads[n].phase = "running" /\ reloads'[n].phase = "settled"

\* The enabled flags are what they were when call n was made.
FlagsRestored(n) ==
  /\ fileCache'.enabled = reloads[n].wasFileCacheEnabled
  /\ pageCache'.enabled = reloads[n].wasPageCacheEnabled

\* C28: every loader call reloadAll makes that is not suppressed fetches,
\* and when the promise of a reloadAll call settles both enabled flags equal
\* their value at that call, overlapping calls included.
C28_ReloadBypassesAndRestores ==
  [][ /\ NewReload => ReloadFetches
      /\ \A n \in DOMAIN reloads : ReloadSettles(n) => FlagsRestored(n) ]_vars

\* C28 for calls that do not overlap with another reloadAll.
C28_LoneReloadBypassesAndRestores ==
  [][ /\ NewReload => ReloadFetches
      /\ \A n \in DOMAIN reloads :
           (ReloadSettles(n) /\ ~reloads[n].overlapped) => FlagsRestored(n) ]_vars

\* C28: a reloadAll call that overlapped with another one has settled, after
\* fetching a component that the file cache held.
C28_Witness ==
  \E n \in DOMAIN reloads :
    /\ reloads[n].phase = "settled"
    /\ reloads[n].overlapped
    /\ \E j \in reloads[n].loads : loads[j].path = "fetch"


\* ----------------------------------------------------------------- C30
\* The elements of the document that name a handler.
EventElements ==
  {e \in (DOMAIN dom) \X (1..2) : e[2] \in DOMAIN dom[e[1]] /\ dom[e[1]][e[2]].k = "event"}

\* C30: whatever loads, reloads and the document-ready binding pass have
\* happened, every element carries at most one listener per event type, so
\* that one event invokes its handler once.
C30_AtMostOneListener == \A e \in EventElements : dom[e[1]][e[2]].listeners <= 1

\* C30 for the first revision, whose bindEventHandlers marks the elements.
C30_FirstRevisionAtMostOneListener == rev = 1 => C30_AtMostOneListener

\* C30: the document-ready pass is over, a component with a button was
\* loaded before it and another after it, and every button is bound.
C30_Witness ==
  /\ ready.phase = "done"
  /\ \E j \in ready.loads : loads[j].phase = "fulfilled" /\ loads[j].path = "fetch"
  /\ \E j \in DOMAIN loads : j > 1 /\ loads[j].parent = 0 /\ loads[j].phase = "fulfilled"
                             /\ j \notin ready.loads
  /\ Cardinality(EventElements) >= 2
  /\ \A e \in EventElements : dom[e[1]][e[2]].listeners >= 1


\* ------------------------------------------------------- C31 .. C39
\* ----------------------------------------------------------------- C31
\* The promise of load i settles in this step.
LoadSettles(i) ==
  /\ loads'[i].phase \in {"fulfilled", "rejected"}
  /\ (i \in DOMAIN loads => loads[i].phase \notin {"fulfilled", "rejected"})

\* What an element that references fragment id shows once the reference is
\* resolved: the fragment's text, or the error block of a failed load.
Resolved(id) == {site[id], ErrorBlock(id, HttpError), ErrorBlock(id, TypeErrorMsg)}

\* The element at position n of the text in el holds what its reference
\* resolves to.
ReferenceFilled(d, el, n) == d[Append(el, n)] \in Resolved(d[el][n].ref)

\* C31: when the load of a fragment has settled, every element of the
\* injected text that references a fragment holds that fragment's content or
\* its error block, also when two elements reference the same fragment, with
\* the file cache cold or warm.
C31_EveryReferenceFilled ==
  [][\A i \in DOMAIN loads' :
       (LoadSettles(i) /\ loads'[i].live /\ loads'[i].parent = 0 /\ loads'[i].path # "suppressed")
         => \A n \in Markers(dom'[loads'[i].el]) : ReferenceFilled(dom', loads'[i].el, n)]_vars

\* C31 without the guard: every reference whose loader call was not
\* suppressed is filled when its parent settles.
C31_UnsuppressedReferencesFilled ==
  [][\A i \in DOMAIN loads' :
       (LoadSettles(i) /\ loads'[i].live /\ loads'[i].parent = 0 /\ loads'[i].path # "suppressed")
         => \A j \in Children(loads', i) :
              loads'[j].path # "suppressed"
                => dom'[loads'[j].el] \in Resolved(loads'[j].id)]_vars

\* C31: a fragment with two references to q has settled with the first one
\* filled, once with q fetched and once with q from the cache.
C31_Witness ==
  /\ \E i \in DOMAIN loads :
       /\ loads[i].id = "p" /\ loads[i].phase = "fulfilled"
       /\ \E j \in Children(loads, i) : loads[j].id = "q" /\ loads[j].path = "fetch"
                                        /\ loads[j].phase = "fulfilled"
  /\ \E i \in DOMAIN loads :
       /\ loads[i].id = "p" /\ loads[i].phase = "fulfilled"
       /\ \E j \in Children(loads, i) : loads[j].id = "q" /\ loads[j].path = "cache"
                                        /\ loads[j].phase = "fulfilled"


\* ----------------------------------------------------------------- C32
\* The text of fragment id holds a script-file reference (data-js).
HasScriptFileReference(id) == \E n \in DOMAIN site[id] : site[id][n].k = "js"

\* Load i got the text of its fragment (its fetch did not fail).
GotText(i) == loads[i].path \in {"fetch", "cache"} /\ loads[i].err # HttpError
              /\ loads[i].phase # "fetching"

\* The fragment references of the text load i injected each got a loader call.
FragmentReferencesWalked(i) ==
  \A n \in Markers(site[loads[i].id]) :
    \E j \in Children(loads, i) : loads[j].el = Append(loads[i].el, n)

\* C32: in the second revision a load whose text holds a script-file
\* reference is not failed by it on the fetch path nor on the cache-hit path:
\* it walks the fragment references of the same text, fulfils, keeps its
\* content and leaves the in-flight set.
C32_ScriptFileReferenceKeepsParent ==
  rev = 2 =>
    \A i \in DOMAIN loads :
      (GotText(i) /\ HasScriptFileReference(loads[i].id))
        => /\ loads[i].phase \in {"nested", "fulfilled"}
           /\ FragmentReferencesWalked(i)
           /\ loads[i].phase = "fulfilled"
                => /\ loads[i].id \notin loadingComponents
                   /\ dom[loads[i].el] = site[loads[i].id]

\* What the second revision does instead: no fragment reference of the text
\* is walked; on the fetch path the load is rejected with the TypeError; on
\* the cache-hit path the call ends by the exception and its identifier
\* stays in the in-flight set.
C32_ScriptFileReferenceFailsParent ==
  rev = 2 =>
    \A i \in DOMAIN loads :
      (GotText(i) /\ HasScriptFileReference(loads[i].id))
        => /\ Children(loads, i) = {}
           /\ loads[i].err = TypeErrorMsg
           /\ loads[i].path = "fetch"
                => loads[i].phase \in {"failing", "rejected"}
           /\ loads[i].path = "cache"
                => loads[i].phase = "thrown" /\ loads[i].id \in loadingComponents

\* C32 witness: in the second revision a fragment with a script-file
\* reference has been loaded once from the network and once from the cache.
C32_Witness ==
  /\ rev = 2
  /\ \E i, j \in DOMAIN loads :
       /\ HasScriptFileReference(loads[i].id) /\ HasScriptFileReference(loads[j].id)
       /\ GotText(i) /\ loads[i].path = "fetch" /\ loads[i].phase \in Settled
       /\ GotText(j) /\ loads[j].path = "cache" /\ loads[j].phase \in Settled


\* ----------------------------------------------------------------- C33
\* The script elements of fragment id, and whether one of them fails.
ScriptElements(id) == {n \in DOMAIN site[id] : site[id][n].k = "script"}
HasFailingScript(id) == \E n \in ScriptElements(id) : site[id][n] = FailingScript

\* Another call holds the guard of load i's identifier.
GuardHeldByAnother(i) ==
  \E j \in DOMAIN loads :
    j # i /\ loads[j].id = loads[i].id /\ loads[j].path # "suppressed"
          /\ loads[j].phase \in ActivePhases

\* C33: a script that fails is caught on its own.  For every load of a
\* fragment with a failing script: each pass over its scripts has run every
\* script of the fragment, the load fails by its fetch or not at all, its
\* content is not replaced by an error block, and once it has settled its
\* identifier is out of the in-flight set.
C33_FailingScriptCaught ==
  \A i \in DOMAIN loads :
    (HasFailingScript(loads[i].id) /\ loads[i].path \in {"fetch", "cache"})
      => /\ loads[i].executed = loads[i].ran * Cardinality(ScriptElements(loads[i].id))
         /\ loads[i].err \in {"", HttpError}
         /\ loads[i].err = "" => loads[i].phase \in {"fetching", "nested", "fulfilled"}
         /\ (loads[i].phase = "fulfilled" /\ StillInPlace(i))
              => dom[loads[i].el] = site[loads[i].id]
         /\ loads[i].phase \in Settled
              => (loads[i].id \in loadingComponents => GuardHeldByAnother(i))

\* C33 witness: a fragment whose first script fails has been loaded from
\* the network and from the cache; both loads fulfilled with the scripts run
\* and the content in place.
C33_Witness ==
  \E i, j \in DOMAIN loads :
    /\ HasFailingScript(loads[i].id) /\ loads[i].path = "fetch"
    /\ loads[i].phase = "fulfilled" /\ loads[i].ran > 0
    /\ HasFailingScript(loads[j].id) /\ loads[j].path = "cache"
    /\ loads[j].phase = "fulfilled" /\ loads[j].ran > 0
    /\ StillInPlace(j) /\ dom[loads[j].el] = site[loads[j].id]


\* ----------------------------------------------------------------- C34
\* The scripts load i injected have been run once: never twice, and once
\* when the load has fulfilled with its text still in its element.
RanOnce(i) ==
  /\ loads[i].ran <= 1
  /\ (loads[i].phase = "fulfilled" /\ StillInPlace(i)) => loads[i].ran = 1

\* C34: the inline scripts of a fragment are executed exactly once per load
\* of that fragment; the completion of a parent or a further ancestor does
\* not execute the scripts of a nested fragment again.
C34_ScriptsRunOncePerLoad == \A i \in DOMAIN loads : RanOnce(i)

\* The part of C34 that the code keeps: the second revision runs the
\* scripts of a load once, and in the first revision a load that is not
\* nested in another one has its own scripts run at most once.
C34_TopLevelScriptsRunOnce ==
  \A i \in DOMAIN loads :
    /\ rev = 2 => RanOnce(i)
    /\ (rev = 1 /\ loads[i].parent = 0) => loads[i].ran <= 1

\* C34 witness: a fragment with scripts was loaded as a nested dependency,
\* its parent has fulfilled and its scripts have been run.
C34_Witness ==
  \E i, j \in DOMAIN loads :
    /\ loads[j].parent = i /\ loads[i].phase = "fulfilled"
    /\ loads[j].phase = "fulfilled" /\ StillInPlace(j) /\ loads[j].ran > 0
    /\ StillInPlace(i) /\ loads[i].ran > 0


\* ----------------------------------------------------------------- C35
\* The loader calls of reloadAll call n: those it made itself and those
\* made for the references inside the fragments it reloaded.
ReloadLoads(ls, n) ==
  reloads[n].loads \cup {j \in DOMAIN ls : ls[j].parent \in reloads[n].loads}

\* Element p was filled by a fetch of reloadAll call n: a call of that
\* reload for p went to the network and has settled, and p holds the
\* fragment's text (or the error block of a failed fetch).
FreshlyFetched(n, p) ==
  /\ \E j \in ReloadLoads(loads', n) :
       /\ loads'[j].el = p /\ loads'[j].live
       /\ loads'[j].path = "fetch" /\ loads'[j].phase \in {"fulfilled", "rejected"}
  /\ dom'[p] \in Resolved(ComponentPath(dom', p))

\* The elements with a data-component attribute that are in the document.
Attached(d) == {DataComponents(d)[k] : k \in DOMAIN DataComponents(d)}

\* C35: when the promise of a reloadAll call settles, every element of the
\* section the call reloaded that carries a data-component attribute and is
\* in the document holds freshly fetched content, whatever the order in
\* which the fetches completed, also when a fragment is referenced by the
\* document and from inside another reloaded fragment.
C35_ReloadRefreshesEveryElement ==
  [][\A n \in DOMAIN reloads :
       ReloadSettles(n)
         => \A p \in Attached(dom') : p[1] = Roots[1] => FreshlyFetched(n, p)]_vars

\* The part of C35 that the code keeps: every call of a reloadAll that did
\* not overlap with another one either returned at the in-flight guard or
\* went to the network, and an element declared by the page itself whose
\* call went to the network holds the fetched text or the error block.
C35_UnsuppressedCallsRefresh ==
  [][\A n \in DOMAIN reloads :
       (ReloadSettles(n) /\ ~reloads[n].overlapped)
         => \A j \in ReloadLoads(loads', n) :
              /\ loads'[j].path \in {"fetch", "suppressed"}
              /\ (loads'[j].path = "fetch" /\ Len(loads'[j].el) = 2)
                   => dom'[loads'[j].el] \in Resolved(loads'[j].id)]_vars

\* C35 witness: a reloadAll call has settled on a document in which b is
\* declared by the page and inside a, and every declared element holds its
\* fragment.
C35_Witness ==
  \E n \in DOMAIN reloads :
    /\ reloads[n].phase = "settled"
    /\ \E p, q \in Attached(dom) :
         /\ p # q /\ Len(q) > Len(p)
         /\ ComponentPath(dom, p) = "b" /\ ComponentPath(dom, q) = "b"
    /\ \A p \in Attached(dom) : dom[p] = site[ComponentPath(dom, p)]
    /\ \A j \in ReloadLoads(loads, n) : loads[j].path = "fetch"


\* ----------------------------------------------------------------- C36
\* A reloadAll call is running.
Reloading == \E n \in DOMAIN reloads : reloads[n].phase = "running"

\* Every reloadAll call made has settled and the file cache is enabled.
ReloadedAndEnabled ==
  /\ reloads # <<>>
  /\ \A n \in DOMAIN reloads : reloads[n].phase = "settled"
  /\ fileCache.enabled

\* The step is not a further reloadAll call.
NoNewReload == Len(reloads') = Len(reloads)

\* A loader call for a cached fragment is made in this step and passes the
\* guard: it is served from the cache and not fetched.
CachedLoadsServedFromCache ==
  \A i \in DOMAIN loads' \ DOMAIN loads :
    (loads'[i].id \in DOMAIN fileCache.cache /\ loads'[i].path \notin {"suppressed", "notfound"})
      => /\ loads'[i].path = "cache"
         /\ fetchCount'[loads'[i].id] = fetchCount[loads'[i].id]

\* C36: while a reloadAll runs no fetched body enters the file cache and the
\* entries it held stay as they were; after the reload has settled and the
\* cache is enabled again, a load of a fragment that was cached before is
\* served that entry without a fetch.
C36_ReloadKeepsFileCacheEntries ==
  [][ /\ Reloading => fileCache'.cache = fileCache.cache
      /\ (ReloadedAndEnabled /\ NoNewReload) => CachedLoadsServedFromCache ]_vars

\* C36 for reloadAll calls that do not overlap with another one.
C36_LoneReloadKeepsFileCacheEntries ==
  [][ /\ (Reloading /\ \A n \in DOMAIN reloads : ~reloads[n].overlapped)
           => fileCache'.cache = fileCache.cache
      /\ (ReloadedAndEnabled /\ NoNewReload) => CachedLoadsServedFromCache ]_vars

\* C36 witness: a fragment was cached, a reloadAll fetched it again and
\* settled, and a later load of it came from the cache; the cache holds
\* nothing but what it held before the reload.
C36_Witness ==
  /\ ReloadedAndEnabled
  /\ \E i, j, k \in DOMAIN loads :
       /\ i < j /\ j < k
       /\ loads[i].id = loads[k].id /\ loads[i].path = "fetch" /\ loads[i].phase = "fulfilled"
       /\ j \in reloads[1].loads /\ loads[j].path = "fetch" /\ loads[j].phase = "fulfilled"
       /\ loads[j].id \notin DOMAIN fileCache.cache
       /\ loads[k].path = "cache"


\* ----------------------------------------------------------------- C37
\* Every spec of the page that build b builds is a string spec or an
\* object spec without layout whose selector matches nothing, so that all of
\* them load into the target itself, and there are two or more of them.
SharedContainer(b) ==
  LET specs == PageDefs[builds'[b].def].components
  IN /\ Len(specs) >= 2
     /\ \A n \in DOMAIN specs :
          \/ specs[n].str
          \/ specs[n].layout = "" /\ specs[n].cond = "none" /\ specs[n].props = <<>>
                /\ <<specs[n].selector>> \notin DOMAIN dom'

\* The loads of the top-level specs of build b.
LoadsOfBuild(b) == {procs'[k].load : k \in ProcsOf(procs', b, 0)}

\* The response of load i is injected in this step; the error block of load
\* i is written in this step.
Injects(i) == i \in DOMAIN loads /\ loads[i].phase = "fetching" /\ loads'[i].phase = "nested"
WritesError(i) == i \in DOMAIN loads /\ loads[i].phase = "failing" /\ loads'[i].phase = "rejected"

StoresMarkup(b) ==
  PageFulfils(b) /\ builds[b].useCache /\ builds[b].key # NoKey /\ pageCache.enabled

\* Spec k has a container of its own: no other spec of its build loads into
\* the same element.
OwnContainer(k) ==
  \A j \in DOMAIN procs : (j # k /\ procs[j].build = procs[k].build) => procs[j].el # procs[k].el

\* The specs of build b, children included, whose condition held and whose
\* load did not fail, with a container of their own.
SpecsToStore(b) ==
  {k \in DOMAIN procs :
     /\ procs[k].build = b /\ procs[k].phase \notin {"skipped", "thrown"} /\ procs[k].load # 0
     /\ loads[procs[k].load].phase # "rejected"
     /\ OwnContainer(k)}

\* The markup holds the content that the load of spec k injected into the
\* element of k.
MarkupHolds(html, k) ==
  LET el == procs[k].el
      r == SubSeq(el, 2, Len(el))
  IN /\ procs[k].load # 0
     /\ loads[procs[k].load].path \in {"fetch", "cache"}
     /\ procs[k].live
     /\ r \in DOMAIN html
     /\ html[r] # <<>>

\* C38: the markup that a build stores in the page cache is the final markup
\* of that build: it holds the injected content of every spec whose
\* condition held and whose load did not fail, whatever other loads and
\* builds of the same fragments are in flight.
C38_StoredMarkupHoldsEverySpec ==
  [][\A b \in DOMAIN builds :
       StoresMarkup(b)
         => /\ pageCache'.cache[builds[b].key] = builds'[b].markup
            /\ \A k \in SpecsToStore(b) : MarkupHolds(builds'[b].markup, k)]_vars

\* Another build was started on the target of build b.
TargetShared(b) ==
  \E j \in DOMAIN builds :
    j # b /\ builds[j].target = builds[b].target /\ builds[j].phase # "rejected"

\* The part of C38 that the code keeps: what is stored is the markup of the
\* target when the build settles, and it holds the content of each spec
\* with a container of its own, unless the loader call of the spec was
\* suppressed by the in-flight guard or another build worked on the same
\* target.
C38_StoredMarkupHoldsUnsuppressedSpecs ==
  [][\A b \in DOMAIN builds :
       StoresMarkup(b)
         => /\ pageCache'.cache[builds[b].key] = builds'[b].markup
            /\ builds'[b].markup = Markup(dom, <<builds[b].target>>)
            /\ \A k \in SpecsToStore(b) :
                 \/ MarkupHolds(builds'[b].markup, k)
                 \/ loads[procs[k].load].path = "suppressed"
                 \/ TargetShared(b)]_vars

\* C38 witness: a build has stored its markup while another build was in
\* flight; the stored markup holds the content of a section of the page.
C38_Witness ==
  \E b, c \in DOMAIN builds : \E k \in ProcsOf(procs, b, 0) :
    /\ builds[b].phase = "fulfilled" /\ builds[b].useCache
    /\ builds[b].key \in DOMAIN pageCache.cache
    /\ pageCache.cache[builds[b].key] = builds[b].markup
    /\ builds[c].phase = "building"
    /\ procs[k].spec.layout # "" /\ OwnContainer(k)
    /\ MarkupHolds(builds[b].markup, k)


\* ----------------------------------------------------------------- C39
\* The markup shows an error block.
ShowsErrorBlock(html) ==
  \E q \in DOMAIN html : \E n \in DOMAIN html[q] : html[q][n].k = "error"

\* The specs of build b whose load failed, with a container of their own.
FailedSpecs(b) ==
  {k \in DOMAIN procs :
     /\ procs[k].build = b /\ procs[k].load # 0
     /\ loads[procs[k].load].phase = "rejected"
     /\ OwnContainer(k)}

\* The buildPage call made in this step: the last entry of the log.
LatestBuild == builds'[Len(builds')]

\* The call reads the page cache and finds markup with an error block under
\* its key.
FindsFailedMarkup ==
  /\ LatestBuild.read
  /\ CacheGet(pageCache, LatestBuild.key).found
  /\ ShowsErrorBlock(CacheGet(pageCache, LatestBuild.key).content)

\* C39: a build whose loads failed stores its markup all the same, error
\* blocks included, and a later build that reads the cache under that key is
\* served the stored markup without a loader call or a fetch; a build is
\* served from the cache only while the entry is there.
C39_FailedBuildIsCachedAndServed ==
  [][ /\ \A b \in DOMAIN builds :
           (StoresMarkup(b) /\ ~TargetShared(b))
             => /\ pageCache'.cache[builds[b].key] = builds'[b].markup
                /\ \A k \in FailedSpecs(b) :
                     LET i == procs[k].load
                     IN builds'[b].markup[SubSeq(procs[k].el, 2, Len(procs[k].el))]
                          = ErrorBlock(loads[i].id, loads[i].err)
      /\ (NewBuild /\ FindsFailedMarkup)
           => /\ LatestBuild.phase = "cached"
              /\ Len(loads') = Len(loads) /\ fetchCount' = fetchCount /\ Len(procs') = Len(procs)
              /\ Markup(dom', <<LatestBuild.target>>) = CacheGet(pageCache, LatestBuild.key).content
      /\ (NewBuild /\ LatestBuild.phase = "cached")
           => LatestBuild.key \in DOMAIN pageCache.cache ]_vars

\* C39 witness: a build with a failed load has stored markup with the error
\* block, and a second build was served that markup from the cache.
C39_Witness ==
  \E b, c \in DOMAIN builds :
    /\ b < c
    /\ builds[b].phase = "fulfilled" /\ ShowsErrorBlock(builds[b].markup)
    /\ \E k \in DOMAIN procs : procs[k].build = b /\ procs[k].load # 0
                               /\ loads[procs[k].load].phase = "rejected"
    /\ builds[c].phase = "cached" /\ builds[c].key = builds[b].key
    /\ Markup(dom, <<builds[c].target>>) = builds[b].markup
    /\ \A k \in DOMAIN procs : procs[k].build # c
====
